---- MODULE Spec2Model ----
(***************************************************************************)
(* Anti-abuse engine of els-feedback-proxy: the ChallengeManager           *)
(* (challenge issue / signed-submission verification / progressive block), *)
(* the FixedWindowLimiter and the DuplicateDetector with their Redis-backed *)
(* variants.                                                               *)
(*                                                                         *)
(* Time is a discrete clock `now` (one unit = one tick of time.Now()); the  *)
(* durations handed to NewChallengeManager are scaled to a few ticks,      *)
(* keeping the order skew < ttl < block duration of the configuration.     *)
(* crypto/rand, HMAC-SHA256 and SHA-256 are modelled as collision-free:    *)
(* the values one Issue call draws (client secret, nonce, PoW salt) are    *)
(* named by the serial number of that call, a fresh challenge id likewise, *)
(* and a signature by the secret and the timestamp text it was computed    *)
(* over.                                                                   *)
(***************************************************************************)
EXTENDS Integers, Sequences, FiniteSets, TLC

\* ------------------------------------------------------------------ bounds
MaxTime == 4
NumIDs == 2

\* ------------------------------------------- NewChallengeManager arguments
ttl == 2
timestampSkew == 1
failThreshold == 2
blockDuration == 3

MaxCount == 4
RateWindow == 2
DuplicateWindow == 2
SubmitLimitPerWindow == 1
QueryLimitPerWindow == 2
Keys == {"submit:A", "query:A"}
LimitOf(key) == IF key = "submit:A" THEN SubmitLimitPerWindow ELSE QueryLimitPerWindow
IPs == {"A", "B"}
IDs == 1..NumIDs

\* timestampRaw is the decimal text of an integer, or text ParseInt rejects
Unparsable == <<"junk", 0>>
Decimal(n) == <<"int", n>>
Garbage == <<0, 0>>

EmptyMap == [x \in {} |-> 0]

Abs(x) == IF x < 0 THEN -x ELSE x

VARIABLES
    now,              \* the value time.Now() returns
    records,          \* ChallengeManager.records: challenge id -> challengeRecord
    blockedClientIP,  \* ChallengeManager.blockedClientIP: client ip -> blockedUntil
    issued,           \* history: number of Issue calls made so far
    secretOf,         \* history: id -> serial of the bundle last issued under it (0: none)
    successes,        \* history: how many VerifySubmission calls returned nil, per id
    last,             \* history: the call made by the latest step and its result
    streak,           \* history: ip -> its latest calls in a row that returned ErrSignatureInvalid
    sameFails,        \* history: id -> calls naming it that returned ErrSignatureInvalid
    claimDue,         \* history: ip -> when a block begun by a full streak would end
    sameDue,          \* history: ip -> when a block begun by failures on one challenge would end
    dueSeen,          \* history: whether the latest call came before claimDue / sameDue
    mu,               \* ChallengeManager.mu: the goroutine holding it, or Unlocked
    pc,               \* goroutine -> where it is inside VerifySubmission
    call,             \* goroutine -> arguments and locals of its VerifySubmission call
    limiter,          \* main: which limiter the server was given
    limRecords,       \* FixedWindowLimiter.records of the local limiter
    fallbackRecords,  \* records of RedisFixedWindowLimiter.fallback
    redisRate,        \* the Redis rate keys: key -> counter and expiry
    lim,              \* history: the latest Allow call and what it met
    calls,            \* history: key -> start of the window as the caller counts
                      \* it, and the number of calls made in it
    grants,           \* history: clock value -> the Allow calls that returned true at it
    dupRecords,       \* DuplicateDetector.records of the local detector
    dupFallback,      \* records of RedisDuplicateDetector.fallback
    redisDedupe,      \* the Redis dedupe keys: key -> expiry
    dup,              \* history: the latest SeenRecently call and what it met
    noted,            \* history: key -> the expiry the caller derives from the
                      \* latest call that returned false
    misses,           \* history: key and clock value -> the SeenRecently calls
                      \* that returned false for the key at it
    pure,             \* a function of the program applied to drawn arguments
    req,              \* history: the stages the latest request went through
    tickets           \* TicketStore.records: the texts whose issue has a token set

cmVars == <<records, blockedClientIP, issued, secretOf, successes>>
trackVars == <<streak, sameFails, claimDue, sameDue, dueSeen>>
concVars == <<mu, pc, call>>
limVars == <<limiter, limRecords, fallbackRecords, redisRate, lim, calls, grants>>
dupVars == <<dupRecords, dupFallback, redisDedupe, dup, noted, misses>>
vars == <<now, last, cmVars, trackVars, concVars, limVars, dupVars, pure, req, tickets>>

Procs == {"g1", "g2"}
Unlocked == "unlocked"

\* ------------------------------------------------------- ChallengeManager

\* hex(HMAC-SHA256(secret, METHOD \n PATH \n timestampRaw \n bodyHash \n nonce))
HMAC(secret, timestampRaw) == <<secret, timestampRaw[2]>>

cleanupRecords_None(recs, t) == recs

cleanupRecords(recs, t) ==
    [i \in {j \in DOMAIN recs : ~(recs[j].ExpiresAt < t)} |-> recs[i]]

cleanupBlocks(blk, t) ==
    [p \in {q \in DOMAIN blk : ~(t > blk[q])} |-> blk[p]]

deleteRecord(recs, id) == [i \in (DOMAIN recs) \ {id} |-> recs[i]]

IsBlocked_Never(blk, t, ip) == FALSE

IsBlocked_UntilRemoved(blk, t, ip) == ip \in DOMAIN blk

IsBlocked(blk, t, ip) == ip \in DOMAIN blk /\ t < blk[ip]

IsExpired(rec, t) == rec.ExpiresAt < t

IPMatches_Any(rec, ip) == TRUE

IPMatches(rec, ip) == rec.IssuedIP = ip

\* strconv.ParseInt(timestampRaw, 10, 64): err == nil, and the value
TimestampParses(timestampRaw) == timestampRaw[1] = "int"
ParseInt(timestampRaw) == timestampRaw[2]

TimestampWithinSkew_NoAbs(t, timestampRaw) ==
    ~(t - ParseInt(timestampRaw) > timestampSkew)

TimestampWithinSkew(t, timestampRaw) == ~(Abs(t - ParseInt(timestampRaw)) > timestampSkew)

SignatureMatches(rec, timestampRaw, signatureRaw) ==
    signatureRaw = HMAC(rec.Secret, timestampRaw)

\* ---------------------------------------------------------- proof of work

\* strings.TrimSpace(powNonceRaw) is "" / longer than 128 bytes / a nonce
EmptyNonce == <<"empty", 0>>
BlankNonce == <<"blank", 0>>
LongNonce == <<"long", 0>>
Nonces == {<<"nonce", n>> : n \in 0..3}
\* strings.TrimSpace(powHashRaw) is "" or the hex text of a digest
EmptyHash == <<>>
NoPoW == <<EmptyNonce, EmptyHash>>

buildPoWMessage(timestampRaw, challengeID, powSalt, powNonce) ==
    <<timestampRaw, challengeID, powSalt, powNonce>>

\* sha256.Sum256 on PoW messages: a fixed mixing function onto 2-byte digests
\* in which every message has a nonce for each of the four first bytes
Sha256(msg) ==
    LET h == (msg[1][2] + 2 * msg[2] + 3 * msg[3] + msg[4][2]) % 4
    IN <<CASE h = 0 -> 0 [] h = 1 -> 1 [] h = 2 -> 128 [] OTHER -> 255,
         (h * 67) % 256>>

Digests == {Sha256(<<Decimal(0), 0, 0, n>>) : n \in Nonces}

MaskedIsZero_OneBitShort(b, bits) == b < 2 ^ (9 - bits)

\* b & mask = 0 for a mask made of the top `bits` bits
MaskedIsZero(b, bits) == b < 2 ^ (8 - bits)

RECURSIVE hasLeadingZeroBits(_, _)
hasLeadingZeroBits(digest, bits) ==
    IF bits <= 0 THEN TRUE
    ELSE IF digest = <<>> THEN bits <= 0
    ELSE IF bits >= 8
         THEN IF Head(digest) # 0 THEN FALSE
              ELSE hasLeadingZeroBits(Tail(digest), bits - 8)
         ELSE MaskedIsZero(Head(digest), bits)

PoWDigest(rec, id, timestampRaw, powNonce) ==
    Sha256(buildPoWMessage(timestampRaw, id, rec.PoWSalt, powNonce))

TrimSpace_Kept(powNonceRaw) == powNonceRaw

\* strings.TrimSpace(powNonceRaw): text of white space alone becomes ""
TrimSpace(powNonceRaw) == IF powNonceRaw = BlankNonce THEN EmptyNonce ELSE powNonceRaw

PoWHashMatches_Never(powHashRaw, powDigest) == powHashRaw = EmptyHash

\* strings.TrimSpace(powHashRaw) is "", or equals hex(powDigest) ignoring case
PoWHashMatches(powHashRaw, powDigest) == powHashRaw = EmptyHash \/ powHashRaw = powDigest

PoWCheck_AnyDifficulty(rec, id, timestampRaw, powNonceRaw, powHashRaw) ==
    IF TrimSpace(powNonceRaw) = EmptyNonce THEN "ErrPoWMissing"
    ELSE IF TrimSpace(powNonceRaw) = LongNonce THEN "ErrPoWInvalid"
    ELSE IF ~PoWHashMatches(powHashRaw,
                            PoWDigest(rec, id, timestampRaw, TrimSpace(powNonceRaw)))
         THEN "ErrPoWInvalid"
    ELSE "ok"

PoWCheck_Skipped(rec, id, timestampRaw, powNonceRaw, powHashRaw) == "ok"

\* the outcome of lines 148-180: "ok" or the error returned
PoWCheck(rec, id, timestampRaw, powNonceRaw, powHashRaw) ==
    IF ~(rec.PoWBits > 0) THEN "ok"
    ELSE IF TrimSpace(powNonceRaw) = EmptyNonce THEN "ErrPoWMissing"
    ELSE IF TrimSpace(powNonceRaw) = LongNonce THEN "ErrPoWInvalid"
    ELSE IF ~hasLeadingZeroBits(PoWDigest(rec, id, timestampRaw, TrimSpace(powNonceRaw)),
                                rec.PoWBits)
         THEN "ErrPoWInvalid"
    ELSE IF ~PoWHashMatches(powHashRaw,
                            PoWDigest(rec, id, timestampRaw, TrimSpace(powNonceRaw)))
         THEN "ErrPoWInvalid"
    ELSE "ok"

\* ------------------------------------------------------- VerifySubmission

FailureErrors_WithTimestamp ==
    {"ErrPoWMissing", "ErrPoWInvalid", "ErrSignatureInvalid", "ErrTimestampInvalid"}

FailureErrors == {"ErrPoWMissing", "ErrPoWInvalid", "ErrSignatureInvalid"}

\* the error VerifySubmission returns ("nil" on success), evaluated on the
\* maps as they are after cleanup(now)
VerifyResult(recs, blk, t, ip, id, timestampRaw, signatureRaw, powNonceRaw, powHashRaw) ==
    IF IsBlocked(blk, t, ip) THEN "ErrClientBlocked"
    ELSE IF id \notin DOMAIN recs THEN "ErrChallengeMissing"
    ELSE IF recs[id].Used THEN "ErrChallengeUsed"
    ELSE IF IsExpired(recs[id], t) THEN "ErrChallengeExpired"
    ELSE IF ~IPMatches(recs[id], ip) THEN "ErrChallengeIPMismatch"
    ELSE IF ~TimestampParses(timestampRaw) THEN "ErrTimestampInvalid"
    ELSE IF ~TimestampWithinSkew(t, timestampRaw) THEN "ErrTimestampInvalid"
    ELSE IF PoWCheck(recs[id], id, timestampRaw, powNonceRaw, powHashRaw) # "ok"
         THEN PoWCheck(recs[id], id, timestampRaw, powNonceRaw, powHashRaw)
    ELSE IF ~SignatureMatches(recs[id], timestampRaw, signatureRaw) THEN "ErrSignatureInvalid"
    ELSE "nil"

ReachesThreshold_Late(failCount) == failCount > failThreshold

ReachesThreshold(failCount) == failCount >= failThreshold

\* registerFailure: the records map afterwards (a record no longer in the
\* map is out of reach of later calls, and the map stays as it is)
registerFailureRecords(recs, id) ==
    IF id \notin DOMAIN recs THEN recs
    ELSE IF ReachesThreshold(recs[id].FailCount + 1)
    THEN deleteRecord(recs, id)
    ELSE [recs EXCEPT ![id].FailCount = @ + 1]

registerFailureBlocks_Always(recs, blk, t, ip, id) ==
    [p \in (DOMAIN blk) \cup {ip} |-> IF p = ip THEN t + blockDuration ELSE blk[p]]

\* registerFailure: the blockedClientIP map afterwards
registerFailureBlocks(recs, blk, t, ip, id) ==
    IF id \in DOMAIN recs /\ ReachesThreshold(recs[id].FailCount + 1)
    THEN [p \in (DOMAIN blk) \cup {ip} |-> IF p = ip THEN t + blockDuration ELSE blk[p]]
    ELSE blk

MarkUsed(recs, id) ==
    IF id \in DOMAIN recs THEN [recs EXCEPT ![id].Used = TRUE] ELSE recs

ConsumeRecord_Kept(recs, id) == recs

\* record.Used = true; delete(m.records, challengeID)
ConsumeRecord(recs, id) == deleteRecord(MarkUsed(recs, id), id)

RecordsAfter(recs, id, res) ==
    IF res = "nil" THEN ConsumeRecord(recs, id)
    ELSE IF res = "ErrChallengeExpired" THEN deleteRecord(recs, id)
    ELSE IF res \in FailureErrors THEN registerFailureRecords(recs, id)
    ELSE recs

BlocksAfter(recs, blk, t, ip, id, res) ==
    IF res \in FailureErrors THEN registerFailureBlocks(recs, blk, t, ip, id)
    ELSE blk

CapCalls(n) == IF n < MaxCount THEN n ELSE MaxCount

Bump(n) == IF n < 2 THEN n + 1 ELSE n

\* ---- what `last` records about a call: its arguments as the caller sees them
\* and the state it met, stated without the operators that model the code

\* the timestamp text is an integer no further than the skew from the clock
ObsFresh(timestampRaw) ==
    /\ timestampRaw[1] = "int"
    /\ timestampRaw[2] - now <= timestampSkew
    /\ now - timestampRaw[2] <= timestampSkew

\* the signature is the one the holder of the bundle issued under id computes
ObsSigned(id, timestampRaw, signatureRaw) ==
    secretOf[id] > 0 /\ signatureRaw = <<secretOf[id], timestampRaw[2]>>

\* the caller's address has a block that has not run out
ObsBlocked(ip) == ip \in DOMAIN blockedClientIP /\ now < blockedClientIP[ip]

\* the named record: not in the map, in the map and past its expiry, or live
ObsRecord(id) ==
    IF id \notin DOMAIN records THEN "none"
    ELSE IF records[id].ExpiresAt < now THEN "expired"
    ELSE "live"

ObsOwn(ip, id) == id \in DOMAIN records /\ records[id].IssuedIP = ip

ObsFailCount(id) == IF id \in DOMAIN records THEN records[id].FailCount ELSE 0

ObsPoWBits(id) == IF id \in DOMAIN records THEN records[id].PoWBits ELSE 0

\* the call changed or removed a record that was not past its expiry
ObsTouched(recsAfter) ==
    \E i \in DOMAIN records :
        /\ ~(records[i].ExpiresAt < now)
        /\ (i \notin DOMAIN recsAfter \/ recsAfter[i] # records[i])

\* the number of zero bits a byte begins with, and a byte sequence begins with
ByteLeadingZeros(b) ==
    IF b = 0 THEN 8 ELSE CHOOSE k \in 0..7 : 2 ^ (7 - k) <= b /\ b < 2 ^ (8 - k)

RECURSIVE ObsLeadingZeros(_)
ObsLeadingZeros(digest) ==
    IF digest = <<>> THEN 0
    ELSE IF Head(digest) = 0 THEN 8 + ObsLeadingZeros(Tail(digest))
    ELSE ByteLeadingZeros(Head(digest))

\* the digest of the PoW message the holder of the bundle issued under id
\* builds for this timestamp text and nonce
ObsDigest(id, timestampRaw, powNonceRaw) ==
    Sha256(<<timestampRaw, id, secretOf[id], powNonceRaw>>)

NoCall(op) ==
    [op |-> op, ip |-> "A", id |-> 1, res |-> op, fresh |-> FALSE, sg |-> FALSE,
     pw |-> NoPoW, blocked |-> FALSE, rec |-> "none", own |-> FALSE, fc |-> 0,
     bits |-> 0, done |-> FALSE, touched |-> FALSE, raced |-> FALSE,
     nk |-> "empty", lz |-> -1, hk |-> "none"]

Issue(clientIP, powBits, id) ==
    /\ records' = [i \in DOMAIN cleanupRecords(records, now) \cup {id} |->
                     IF i = id
                     THEN [Secret |-> issued + 1,
                           PoWBits |-> powBits,
                           PoWSalt |-> issued + 1,
                           ExpiresAt |-> now + ttl,
                           IssuedIP |-> clientIP,
                           Used |-> FALSE,
                           FailCount |-> 0]
                     ELSE records[i]]
    /\ blockedClientIP' = cleanupBlocks(blockedClientIP, now)
    /\ issued' = issued + 1
    /\ secretOf' = [secretOf EXCEPT ![id] = issued + 1]
    /\ last' = [NoCall("Issue") EXCEPT !.ip = clientIP, !.id = id,
                                       !.rec = ObsRecord(id),
                                       !.done = (secretOf[id] > 0)]
    /\ UNCHANGED <<now, successes>>

VerifySubmission(clientIP, challengeID, timestampRaw, signatureRaw, powNonceRaw, powHashRaw) ==
    \E recs \in {cleanupRecords(records, now)}, blk \in {cleanupBlocks(blockedClientIP, now)} :
    \E res \in {VerifyResult(recs, blk, now, clientIP, challengeID, timestampRaw,
                            signatureRaw, powNonceRaw, powHashRaw)} :
       /\ records' = RecordsAfter(recs, challengeID, res)
       /\ blockedClientIP' = BlocksAfter(recs, blk, now, clientIP, challengeID, res)
       /\ successes' = IF res = "nil"
                       THEN [successes EXCEPT ![challengeID] = Bump(@)]
                       ELSE successes
       /\ last' = [op |-> "Verify", ip |-> clientIP, id |-> challengeID, res |-> res,
                   fresh |-> ObsFresh(timestampRaw),
                   sg |-> ObsSigned(challengeID, timestampRaw, signatureRaw),
                   pw |-> <<powNonceRaw, powHashRaw>>,
                   blocked |-> ObsBlocked(clientIP),
                   rec |-> ObsRecord(challengeID),
                   own |-> ObsOwn(clientIP, challengeID),
                   fc |-> ObsFailCount(challengeID),
                   bits |-> ObsPoWBits(challengeID),
                   done |-> (successes[challengeID] > 0),
                   touched |-> ObsTouched(RecordsAfter(recs, challengeID, res)),
                   raced |-> FALSE,
                   nk |-> powNonceRaw[1],
                   lz |-> IF powNonceRaw[1] = "nonce"
                          THEN ObsLeadingZeros(ObsDigest(challengeID, timestampRaw, powNonceRaw))
                          ELSE -1,
                   hk |-> IF powHashRaw = EmptyHash THEN "none"
                          ELSE IF powHashRaw = ObsDigest(challengeID, timestampRaw, powNonceRaw)
                          THEN "match" ELSE "other"]
       /\ UNCHANGED <<now, issued, secretOf>>

\* ------------------------------------------------------- FixedWindowLimiter

LimitDenies_ZeroOnly(limit) == limit = 0

\* if limit <= 0 { return false }
LimitDenies(limit) == limit <= 0

\* !exists || now.Sub(record.WindowStart) >= window
WindowElapsed(recs, key, window, t) ==
    key \notin DOMAIN recs \/ t - recs[key].WindowStart >= window

CountExhausted_Late(rec, limit) == rec.Count > limit

\* record.Count >= limit
CountExhausted(rec, limit) == rec.Count >= limit

\* cleanupExpired: drop every key whose window began two windows ago or
\* earlier (its own time.Now() falls in the same clock unit as the caller's)
cleanupExpired(recs, window, t) ==
    [k \in {j \in DOMAIN recs : ~(t - recs[j].WindowStart >= window * 2)} |-> recs[k]]

\* l.records[key] = fixedWindowRecord{WindowStart: now, Count: 1}
ResetWindow(recs, key, t) ==
    [k \in (DOMAIN recs) \cup {key} |->
        IF k = key THEN [WindowStart |-> t, Count |-> 1] ELSE recs[k]]

\* FixedWindowLimiter.Allow: the value returned
AllowResult(recs, key, limit, window, t) ==
    IF LimitDenies(limit) THEN FALSE
    ELSE IF WindowElapsed(recs, key, window, t) THEN TRUE
    ELSE ~CountExhausted(recs[key], limit)

\* FixedWindowLimiter.Allow: the records map afterwards, for the clock value t
\* the call read before taking the mutex and the value tc that cleanupExpired
\* reads for itself
AllowRecordsAt(recs, key, limit, window, t, tc) ==
    IF LimitDenies(limit) THEN recs
    ELSE IF WindowElapsed(recs, key, window, t)
    THEN cleanupExpired(ResetWindow(recs, key, t), window, tc)
    ELSE IF CountExhausted(recs[key], limit) THEN recs
    ELSE [recs EXCEPT ![key].Count = @ + 1]

\* the same for a call that runs within one clock value
AllowRecords(recs, key, limit, window, t) == AllowRecordsAt(recs, key, limit, window, t, t)

\* ---------------------------------------------------- RedisFixedWindowLimiter

\* what Redis reports as the time to live of a key that has no expiry
NoTTL == -1

\* the rate keys Redis still holds at time t: a key is gone once its PEXPIRE
\* time is reached
RedisExpire(rate, t) ==
    [k \in {j \in DOMAIN rate : rate[j].ExpireAt = NoTTL \/ t < rate[j].ExpireAt} |-> rate[k]]

\* if limit <= 0 { return false }
RedisLimitDenies(limit) == limit <= 0

\* how a call to Redis went: answered, failed before reaching Redis
\* ("unreached"), or carried out by Redis with the answer lost ("timeout")
RemoteOutcomes == {"answered", "unreached", "timeout"}

\* Redis carried the command out
RemoteRan(remote) == remote # "unreached"

ScriptFailed_Always(remote) == TRUE

ScriptFailed_OnlyUnreached(remote) == remote = "unreached"

\* result, err := fixedWindowAllowScript.Run(...).Int(); err != nil
ScriptFailed(remote) == remote # "answered"

\* windowMillis := window.Milliseconds(); if windowMillis <= 0 { windowMillis = 1 }
windowMillis(window) == IF window <= 0 THEN 1 ELSE window

\* redis.call("INCR", KEYS[1])
ScriptCurrent(rate, key) == IF key \in DOMAIN rate THEN rate[key].Count + 1 ELSE 1

\* redis.call("INCR", KEYS[1]): a key that is not there is created without expiry
Incr(rate, key) ==
    [k \in (DOMAIN rate) \cup {key} |->
        IF k # key THEN rate[k]
        ELSE [Count |-> ScriptCurrent(rate, key),
              ExpireAt |-> IF key \in DOMAIN rate THEN rate[key].ExpireAt ELSE NoTTL]]

\* redis.call("PEXPIRE", KEYS[1], ARGV[2])
PExpire(rate, key, millis, t) == [rate EXCEPT ![key].ExpireAt = t + millis]

FirstIncrement_Always(current) == TRUE

\* if current == 1 then
FirstIncrement(current) == current = 1

\* fixedWindowAllowScript: the keys afterwards (INCR, and PEXPIRE on the first);
\* Redis runs a script as one command, no other command comes in between
ScriptRate(rate, key, window, t) ==
    IF FirstIncrement(ScriptCurrent(rate, key))
    THEN PExpire(Incr(rate, key), key, windowMillis(window), t)
    ELSE Incr(rate, key)

\* fixedWindowAllowScript: the value returned
ScriptResult(rate, key, limit) == IF ScriptCurrent(rate, key) > limit THEN 0 ELSE 1

\* ------------------------------------------- what `lim` records about a call

\* the count the key's record holds while its window is open, else 0
ObsOpenCount(recs, key, window) ==
    IF key \in DOMAIN recs /\ now - recs[key].WindowStart < window
    THEN recs[key].Count ELSE 0

\* the caller's own count of its calls in the window that began with its first
ObsInside(key, window) == key \in DOMAIN calls /\ now - calls[key].Start < window

ObsNth(key, window) ==
    IF ObsInside(key, window) THEN CapCalls(calls[key].Nth + 1) ELSE 1

CountCall(key, window) ==
    [k \in (DOMAIN calls) \cup {key} |->
        IF k # key THEN calls[k]
        ELSE [Start |-> IF ObsInside(key, window) THEN calls[key].Start ELSE now,
              Nth |-> ObsNth(key, window)]]

NoGrants == [t \in 0..MaxTime |-> 0]

NoPure == [fn |-> "none"]
NoReq == <<>>

NoSeen ==
    [op |-> "none", key |-> "", window |-> 0, res |-> FALSE, remote |-> "none",
     expected |-> FALSE, before |-> 0, held |-> FALSE, changed |-> FALSE]

NoAllow ==
    [op |-> "none", key |-> "", limit |-> 0, window |-> 0, res |-> FALSE,
     remote |-> "none", nth |-> 0, open |-> 0, prev |-> 0, changed |-> FALSE,
     count |-> 0, fbChanged |-> FALSE]

\* the value of the key's Redis counter (0: no such key)
ObsRedisCount(key) == IF key \in DOMAIN redisRate THEN redisRate[key].Count ELSE 0

\* the count of the key's record, whether its window is open or not
ObsStoredCount(recs, key) == IF key \in DOMAIN recs THEN recs[key].Count ELSE 0

\* main: the limiter is the local one, or the Redis-backed one when Redis
\* is configured and answers the ping
NewLimiter(kind) ==
    /\ limiter = "unset"
    /\ limiter' = kind
    /\ UNCHANGED <<now, last, cmVars, trackVars, concVars, limRecords,
                   fallbackRecords, redisRate, lim, calls, grants, dupVars, pure, req, tickets>>

\* a handler calls Allow on the local limiter
Allow(key, limit, window) ==
    /\ limiter = "local"
    /\ limRecords' = AllowRecords(limRecords, key, limit, window, now)
    /\ calls' = IF limit > 0 THEN CountCall(key, window) ELSE calls
    /\ lim' = [op |-> "Allow", key |-> key, limit |-> limit, window |-> window,
               res |-> AllowResult(limRecords, key, limit, window, now),
               remote |-> "none",
               nth |-> IF limit > 0 THEN ObsNth(key, window) ELSE 0,
               open |-> ObsOpenCount(limRecords, key, window),
               prev |-> ObsStoredCount(limRecords, key),
               changed |-> limRecords' # limRecords,
               count |-> 0, fbChanged |-> FALSE]
    /\ dup' = NoSeen
    /\ UNCHANGED <<now, last, cmVars, trackVars, concVars, limiter, grants, fallbackRecords,
                   redisRate, dupRecords, dupFallback, redisDedupe, noted, misses, pure, req, tickets>>

\* a handler calls Allow on the Redis-backed limiter; remote says how the
\* script call went: answered, failed before reaching Redis, or run by Redis
\* with the answer lost (timeout)
RedisAllow(key, limit, window, remote) ==
    /\ limiter = "redis"
    /\ redisRate' = IF RedisLimitDenies(limit) \/ ~RemoteRan(remote) THEN redisRate
                    ELSE ScriptRate(redisRate, key, window, now)
    /\ fallbackRecords' = IF RedisLimitDenies(limit) \/ ~ScriptFailed(remote)
                          THEN fallbackRecords
                          ELSE AllowRecords(fallbackRecords, key, limit, window, now)
    /\ lim' = [op |-> "RedisAllow", key |-> key, limit |-> limit, window |-> window,
               res |-> IF RedisLimitDenies(limit) THEN FALSE
                       ELSE IF ~ScriptFailed(remote)
                       THEN ScriptResult(redisRate, key, limit) = 1
                       ELSE AllowResult(fallbackRecords, key, limit, window, now),
               remote |-> IF RedisLimitDenies(limit) THEN "none" ELSE remote,
               nth |-> 0,
               open |-> ObsOpenCount(fallbackRecords, key, window),
               prev |-> ObsStoredCount(fallbackRecords, key),
               changed |-> (redisRate' # redisRate \/ fallbackRecords' # fallbackRecords),
               count |-> ObsRedisCount(key),
               fbChanged |-> fallbackRecords' # fallbackRecords]
    /\ dup' = NoSeen
    /\ UNCHANGED <<now, last, cmVars, trackVars, concVars, limiter, limRecords, calls, grants,
                   dupRecords, dupFallback, redisDedupe, noted, misses, pure, req, tickets>>

\* --------------------------------------------------------- DuplicateDetector

SeenBefore_OrAt(recs, key, t) == key \in DOMAIN recs /\ t <= recs[key]

\* expireAt, exists := d.records[key]; exists && now.Before(expireAt)
SeenBefore(recs, key, t) == key \in DOMAIN recs /\ t < recs[key]

\* the sweep: delete every recordKey with now.After(expireAt)
sweepExpired(recs, t) == [k \in {j \in DOMAIN recs : ~(t > recs[j])} |-> recs[k]]

\* d.records[key] = now.Add(window)
NoteKey(recs, key, window, t) ==
    [k \in (DOMAIN recs) \cup {key} |-> IF k = key THEN t + window ELSE recs[k]]

\* DuplicateDetector.SeenRecently: the value returned
SeenResult(recs, key, window, t) == SeenBefore(recs, key, t)

SeenRecords_NotKept(recs, key, window, t) == sweepExpired(recs, t)

\* DuplicateDetector.SeenRecently: the records map afterwards
SeenRecords(recs, key, window, t) ==
    IF SeenBefore(recs, key, t) THEN recs
    ELSE sweepExpired(NoteKey(recs, key, window, t), t)

\* ------------------------------------------------------ RedisDuplicateDetector

\* the dedupe keys Redis still holds at time t
RedisDedupeExpire(keys, t) == [k \in {j \in DOMAIN keys : t < keys[j]} |-> keys[k]]

SetNXOk_Always(keys, key) == TRUE

\* SetNX(ctx, fullKey, "1", window): ok, and the keys afterwards
SetNXOk(keys, key) == key \notin DOMAIN keys

SetNXKeys(keys, key, window, t) ==
    IF SetNXOk(keys, key)
    THEN [k \in (DOMAIN keys) \cup {key} |-> IF k = key THEN t + window ELSE keys[k]]
    ELSE keys

\* ------------------------------------------- what `dup` records about a call

\* the expiry the key's entry holds (0: no entry)
ObsExpiry(recs, key) == IF key \in DOMAIN recs THEN recs[key] ELSE 0

\* the caller was told "not seen" for this key and the expiry derived from
\* that call is still ahead
ObsNoted(key) == key \in DOMAIN noted /\ now < noted[key]

\* one more call that returned false for the key at this clock value
CountMiss(key, res) ==
    IF res THEN misses
    ELSE [k \in (DOMAIN misses) \cup {<<key, now>>} |->
             IF k # <<key, now>> THEN misses[k]
             ELSE IF k \in DOMAIN misses THEN CapCalls(misses[k] + 1) ELSE 1]

NoteResult(key, window, res) ==
    IF res THEN noted
    ELSE [k \in (DOMAIN noted) \cup {key} |-> IF k = key THEN now + window ELSE noted[k]]

\* a handler calls SeenRecently on the local detector
SeenRecently(key, window) ==
    /\ limiter = "local"
    /\ dupRecords' = SeenRecords(dupRecords, key, window, now)
    /\ noted' = NoteResult(key, window, SeenResult(dupRecords, key, window, now))
    /\ dup' = [op |-> "SeenRecently", key |-> key, window |-> window,
               res |-> SeenResult(dupRecords, key, window, now),
               remote |-> "none",
               expected |-> ObsNoted(key),
               before |-> ObsExpiry(dupRecords, key),
               held |-> FALSE,
               changed |-> dupRecords' # dupRecords]
    /\ lim' = NoAllow
    /\ UNCHANGED <<now, last, cmVars, trackVars, concVars, limiter, limRecords,
                   fallbackRecords, redisRate, calls, grants, dupFallback, redisDedupe, misses,
                   pure, req, tickets>>

SetNXFailed_Always(remote) == TRUE

\* ok, err := d.client.SetNX(...).Result(); err != nil
SetNXFailed(remote) == remote # "answered"

\* a handler calls SeenRecently on the Redis-backed detector
RedisSeenRecently(key, window, remote) ==
    /\ limiter = "redis"
    /\ redisDedupe' = IF RemoteRan(remote) THEN SetNXKeys(redisDedupe, key, window, now)
                      ELSE redisDedupe
    /\ dupFallback' = IF SetNXFailed(remote)
                      THEN SeenRecords(dupFallback, key, window, now)
                      ELSE dupFallback
    /\ dup' = [op |-> "RedisSeenRecently", key |-> key, window |-> window,
               res |-> IF SetNXFailed(remote)
                       THEN SeenResult(dupFallback, key, window, now)
                       ELSE ~SetNXOk(redisDedupe, key),
               remote |-> remote,
               expected |-> FALSE,
               before |-> ObsExpiry(dupFallback, key),
               held |-> key \in DOMAIN redisDedupe,
               changed |-> dupFallback' # dupFallback]
    /\ lim' = NoAllow
    /\ UNCHANGED <<now, last, cmVars, trackVars, concVars, limiter, limRecords,
                   fallbackRecords, redisRate, calls, grants, dupRecords, noted, pure, req, tickets>>

Tick ==
    /\ now < MaxTime
    /\ now' = now + 1
    /\ last' = NoCall("Tick")
    /\ redisRate' = RedisExpire(redisRate, now')
    /\ lim' = NoAllow
    /\ redisDedupe' = RedisDedupeExpire(redisDedupe, now')
    /\ dup' = NoSeen
    /\ pure' = NoPure
    /\ req' = NoReq
    /\ UNCHANGED <<cmVars, trackVars, concVars, limiter, limRecords, fallbackRecords, calls, grants,
                   dupRecords, dupFallback, noted, misses, tickets>>

\* ---- bookkeeping of signature failures per address and per challenge, from
\* the results returned alone

Cap(n) == IF n < failThreshold THEN n ELSE failThreshold

TrackFailures(ip, id) ==
    LET bad == last'.res = "ErrSignatureInvalid"
    IN /\ dueSeen' = [claimed |-> now < claimDue[ip], same |-> now < sameDue[ip]]
       /\ streak' = [streak EXCEPT ![ip] = IF bad /\ @ + 1 < failThreshold THEN @ + 1 ELSE 0]
       /\ claimDue' = IF bad /\ streak[ip] + 1 >= failThreshold
                      THEN [claimDue EXCEPT ![ip] = now + blockDuration]
                      ELSE claimDue
       /\ sameFails' = [sameFails EXCEPT ![id] = IF bad THEN Cap(@ + 1) ELSE @]
       /\ sameDue' = IF bad /\ sameFails[id] + 1 = failThreshold
                     THEN [sameDue EXCEPT ![ip] = now + blockDuration]
                     ELSE sameDue

\* ------------------------------------ VerifySubmission, statement by statement
\* Goroutines calling VerifySubmission at the same time: each waits at
\* m.mu.Lock(), runs the checks, then the writes, and unlocks on return.

NoArgs ==
    [ip |-> "A", id |-> 1, ts |-> Unparsable, sig |-> Garbage, raced |-> FALSE,
     res |-> "none", at |-> 0, sg |-> FALSE, rec |-> "none", own |-> FALSE,
     blocked |-> FALSE]

LockAvailable_Always == TRUE

\* sync.Mutex: Lock returns only while no goroutine holds the mutex
LockAvailable == mu = Unlocked

\* the handler goroutine enters VerifySubmission
VCall(g, clientIP, challengeID, timestampRaw, signatureRaw) ==
    /\ pc[g] = "idle"
    /\ pc' = [pc EXCEPT ![g] = "waiting"]
    /\ call' = [call EXCEPT ![g] =
                   [ip |-> clientIP, id |-> challengeID, ts |-> timestampRaw,
                    sig |-> signatureRaw,
                    raced |-> /\ successes[challengeID] = 0
                              /\ \E h \in Procs \ {g} :
                                     pc[h] # "idle" /\ call[h].id = challengeID,
                    res |-> "none", at |-> 0, sg |-> FALSE, rec |-> "none",
                    own |-> FALSE, blocked |-> FALSE]]
    /\ last' = NoCall("VCall")
    /\ UNCHANGED <<now, mu, cmVars, trackVars, limVars, dupVars, pure, req, tickets>>

\* m.mu.Lock()
VLock(g) ==
    /\ pc[g] = "waiting"
    /\ LockAvailable
    /\ mu' = g
    /\ pc' = [pc EXCEPT ![g] = "locked"]
    /\ last' = NoCall("VLock")
    /\ UNCHANGED <<now, call, cmVars, trackVars, limVars, dupVars, pure, req, tickets>>

\* now := time.Now(); m.cleanup(now); the checks of lines 109-188
VCheck(g) ==
    /\ pc[g] = "locked"
    /\ records' = cleanupRecords(records, now)
    /\ blockedClientIP' = cleanupBlocks(blockedClientIP, now)
    /\ call' = [call EXCEPT
                   ![g].res = VerifyResult(records', blockedClientIP', now, call[g].ip,
                                           call[g].id, call[g].ts, call[g].sig,
                                           EmptyNonce, EmptyHash),
                   ![g].at = now,
                   ![g].sg = ObsSigned(call[g].id, call[g].ts, call[g].sig)
                             /\ ObsFresh(call[g].ts),
                   ![g].rec = ObsRecord(call[g].id),
                   ![g].own = ObsOwn(call[g].ip, call[g].id),
                   ![g].blocked = ObsBlocked(call[g].ip)]
    /\ pc' = [pc EXCEPT ![g] = "checked"]
    /\ last' = NoCall("VCheck")
    /\ UNCHANGED <<now, mu, issued, secretOf, successes, trackVars, limVars, dupVars, pure, req, tickets>>

\* the writes that follow the checks, the return and the deferred m.mu.Unlock()
VReturn(g) ==
    /\ pc[g] = "checked"
    /\ records' = RecordsAfter(records, call[g].id, call[g].res)
    /\ blockedClientIP' = BlocksAfter(records, blockedClientIP, call[g].at, call[g].ip,
                                       call[g].id, call[g].res)
    /\ successes' = IF call[g].res = "nil"
                    THEN [successes EXCEPT ![call[g].id] = Bump(@)]
                    ELSE successes
    /\ mu' = IF mu = g THEN Unlocked ELSE mu
    /\ pc' = [pc EXCEPT ![g] = "idle"]
    /\ call' = [call EXCEPT ![g] = NoArgs]
    /\ last' = [NoCall("VReturn") EXCEPT !.ip = call[g].ip, !.id = call[g].id,
                                         !.res = call[g].res, !.sg = call[g].sg,
                                         !.rec = call[g].rec, !.own = call[g].own,
                                         !.blocked = call[g].blocked,
                                         !.raced = call[g].raced]
    /\ UNCHANGED <<now, issued, secretOf, trackVars, limVars, dupVars, pure, req, tickets>>

\* ---- goroutines calling the Redis-backed limiter and detector at the same
\* time: the command goes out, Redis carries it out, the reply is read

\* Allow up to fixedWindowAllowScript.Run
RAllowCall(g, key, limit, window) ==
    /\ limiter = "redis"
    /\ pc[g] = "idle"
    /\ ~RedisLimitDenies(limit)
    /\ pc' = [pc EXCEPT ![g] = "sent"]
    /\ call' = [call EXCEPT ![g] = [op |-> "Allow", key |-> key, limit |-> limit,
                                      window |-> window, seen |-> 0, at |-> 0,
                                      reply |-> 0]]
    /\ UNCHANGED <<now, last, mu, cmVars, trackVars, limVars, dupVars, pure, req, tickets>>

\* Redis runs the script of the call
RAllowScript(g) ==
    /\ pc[g] = "sent" /\ call[g].op = "Allow"
    /\ redisRate' = ScriptRate(redisRate, call[g].key, call[g].window, now)
    /\ call' = [call EXCEPT ![g].seen = ObsRedisCount(call[g].key),
                            ![g].at = now,
                            ![g].reply = ScriptResult(redisRate, call[g].key, call[g].limit)]
    /\ pc' = [pc EXCEPT ![g] = "replied"]
    /\ UNCHANGED <<now, last, mu, cmVars, trackVars, limiter, limRecords, fallbackRecords,
                   lim, calls, grants, dupVars, pure, req, tickets>>

\* the reply arrives or the call times out; return result == 1, or the fallback
RAllowReturn(g, remote) ==
    /\ \/ pc[g] = "replied" /\ remote \in {"answered", "timeout"}
       \/ pc[g] = "sent" /\ remote = "unreached"
    /\ call[g].op = "Allow"
    /\ fallbackRecords' = IF ScriptFailed(remote)
                          THEN AllowRecords(fallbackRecords, call[g].key, call[g].limit,
                                            call[g].window, now)
                          ELSE fallbackRecords
    /\ lim' = [NoAllow EXCEPT
                  !.op = "RedisAllow", !.key = call[g].key, !.limit = call[g].limit,
                  !.window = call[g].window, !.remote = remote,
                  !.res = IF ScriptFailed(remote)
                          THEN AllowResult(fallbackRecords, call[g].key, call[g].limit,
                                           call[g].window, now)
                          ELSE call[g].reply = 1,
                  !.count = call[g].seen,
                  !.open = ObsOpenCount(fallbackRecords, call[g].key, call[g].window),
                  !.fbChanged = (fallbackRecords' # fallbackRecords)]
    /\ pc' = [pc EXCEPT ![g] = "idle"]
    /\ call' = [call EXCEPT ![g] = NoArgs]
    /\ dup' = NoSeen
    /\ UNCHANGED <<now, last, mu, cmVars, trackVars, limiter, limRecords, redisRate, calls, grants,
                   dupRecords, dupFallback, redisDedupe, noted, misses, pure, req, tickets>>

\* SeenRecently up to d.client.SetNX
RSeenCall(g, key, window) ==
    /\ limiter = "redis"
    /\ pc[g] = "idle"
    /\ pc' = [pc EXCEPT ![g] = "sent"]
    /\ call' = [call EXCEPT ![g] = [op |-> "SeenRecently", key |-> key, window |-> window,
                                      held |-> FALSE, before |-> 0, at |-> 0,
                                      ok |-> FALSE]]
    /\ UNCHANGED <<now, last, mu, cmVars, trackVars, limVars, dupVars, pure, req, tickets>>

\* Redis carries out SET key 1 PX window NX
RSetNX(g) ==
    /\ pc[g] = "sent" /\ call[g].op = "SeenRecently"
    /\ redisDedupe' = SetNXKeys(redisDedupe, call[g].key, call[g].window, now)
    /\ call' = [call EXCEPT ![g].held = (call[g].key \in DOMAIN redisDedupe),
                            ![g].before = ObsExpiry(redisDedupe, call[g].key),
                            ![g].at = now,
                            ![g].ok = SetNXOk(redisDedupe, call[g].key)]
    /\ pc' = [pc EXCEPT ![g] = "replied"]
    /\ UNCHANGED <<now, last, mu, cmVars, trackVars, limVars, dupRecords, dupFallback,
                   dup, noted, misses, pure, req, tickets>>

\* the reply arrives or the call times out; return !ok, or the fallback
RSeenReturn(g, remote) ==
    /\ \/ pc[g] = "replied" /\ remote \in {"answered", "timeout"}
       \/ pc[g] = "sent" /\ remote = "unreached"
    /\ call[g].op = "SeenRecently"
    /\ dupFallback' = IF SetNXFailed(remote)
                      THEN SeenRecords(dupFallback, call[g].key, call[g].window, now)
                      ELSE dupFallback
    /\ dup' = [NoSeen EXCEPT
                  !.op = "RedisSeenRecently", !.key = call[g].key,
                  !.window = call[g].window, !.remote = remote,
                  !.res = IF SetNXFailed(remote)
                          THEN SeenResult(dupFallback, call[g].key, call[g].window, now)
                          ELSE ~call[g].ok,
                  !.held = call[g].held,
                  !.before = ObsExpiry(dupFallback, call[g].key),
                  !.changed = (dupFallback' # dupFallback)]
    /\ pc' = [pc EXCEPT ![g] = "idle"]
    /\ call' = [call EXCEPT ![g] = NoArgs]
    /\ lim' = NoAllow
    /\ UNCHANGED <<now, last, mu, cmVars, trackVars, limiter, limRecords, fallbackRecords,
                   redisRate, calls, grants, dupRecords, redisDedupe, noted, misses, pure, req, tickets>>

\* ---- goroutines calling the local limiter at the same time

\* Allow up to l.mu.Lock(): limit is positive, now := time.Now() is read
ACall(g, key, limit, window) ==
    /\ limiter = "local"
    /\ pc[g] = "idle"
    /\ ~LimitDenies(limit)
    /\ pc' = [pc EXCEPT ![g] = "timed"]
    /\ call' = [call EXCEPT ![g] = [op |-> "Allow", key |-> key, limit |-> limit,
                                      window |-> window, now |-> now]]
    /\ UNCHANGED <<now, last, mu, cmVars, trackVars, limVars, dupVars, pure, req, tickets>>

\* Allow from l.mu.Lock() to the return and the deferred Unlock, with the
\* clock value read before the mutex was taken
ADecide(g) ==
    /\ pc[g] = "timed"
    /\ limRecords' = AllowRecordsAt(limRecords, call[g].key, call[g].limit,
                                     call[g].window, call[g].now, now)
    /\ lim' = [NoAllow EXCEPT
                  !.op = "Allow", !.key = call[g].key, !.limit = call[g].limit,
                  !.window = call[g].window,
                  !.res = AllowResult(limRecords, call[g].key, call[g].limit,
                                      call[g].window, call[g].now),
                  !.prev = ObsStoredCount(limRecords, call[g].key),
                  !.changed = (limRecords' # limRecords)]
    /\ grants' = IF lim'.res THEN [grants EXCEPT ![now] = @ + 1] ELSE grants
    /\ pc' = [pc EXCEPT ![g] = "idle"]
    /\ call' = [call EXCEPT ![g] = NoArgs]
    /\ dup' = NoSeen
    /\ UNCHANGED <<now, last, mu, cmVars, trackVars, limiter, fallbackRecords, redisRate,
                   calls, dupRecords, dupFallback, redisDedupe, noted, misses, pure, req, tickets>>

\* ------------------------------------------------------------ input sets

\* timestamp texts: junk, and integers on both sides of the skew boundary
TimestampOffsets ==
    {-(timestampSkew + 1), -timestampSkew, 1 - timestampSkew, timestampSkew - 1, timestampSkew + 1}
TimestampInputs == {Decimal(now + d) : d \in TimestampOffsets} \cup {Unparsable}

\* the signature the holder of the bundle issued under id computes, or junk
SignatureInputs(id, timestampRaw) == {HMAC(secretOf[id], timestampRaw), Garbage}

InitState ==
    /\ now = 0
    /\ records = EmptyMap
    /\ blockedClientIP = EmptyMap
    /\ issued = 0
    /\ secretOf = [i \in IDs |-> 0]
    /\ successes = [i \in IDs |-> 0]
    /\ last = NoCall("Init")
    /\ streak = [p \in IPs |-> 0]
    /\ sameFails = [i \in IDs |-> 0]
    /\ claimDue = [p \in IPs |-> 0]
    /\ sameDue = [p \in IPs |-> 0]
    /\ dueSeen = [claimed |-> FALSE, same |-> FALSE]
    /\ mu = Unlocked
    /\ pc = [g \in Procs |-> "idle"]
    /\ call = [g \in Procs |-> NoArgs]
    /\ limiter = "unset"
    /\ limRecords = EmptyMap
    /\ fallbackRecords = EmptyMap
    /\ redisRate = EmptyMap
    /\ lim = NoAllow
    /\ calls = EmptyMap
    /\ grants = NoGrants
    /\ dupRecords = EmptyMap
    /\ dupFallback = EmptyMap
    /\ redisDedupe = EmptyMap
    /\ dup = NoSeen
    /\ noted = EmptyMap
    /\ misses = EmptyMap
    /\ tickets = {}
    /\ req = NoReq

Init == InitState /\ pure = NoPure

\* ---- challenges with proof of work

\* difficulties: none, within the first byte, reaching into the second byte
PoWBitsInputs == {0, 1, 9}

BadTimestamps == {Decimal(now + timestampSkew + 1), Unparsable}

OtherDigest(d) == CHOOSE x \in Digests : x # d

\* X-ELS-PoW-Nonce and X-ELS-PoW-Hash: no nonce, blank, oversized, or one of
\* the nonces, without a hash, with the hash of its digest, or with another
PoWInputs(id, timestampRaw) ==
    {<<n, EmptyHash>> : n \in {EmptyNonce, BlankNonce, LongNonce} \cup Nonces}
        \cup {<<n, ObsDigest(id, timestampRaw, n)>> : n \in Nonces}
        \cup {<<n, OtherDigest(ObsDigest(id, timestampRaw, n))>> : n \in Nonces}

\* timestamp and proof of work of a submission: the current time with every
\* kind of proof, or a timestamp that is refused with a nonce and no hash
PoWSubmissions(id) ==
    {<<Decimal(now), pw>> : pw \in PoWInputs(id, Decimal(now))}
        \cup {<<ts, <<n, EmptyHash>>>> :
                 ts \in BadTimestamps, n \in {EmptyNonce, LongNonce} \cup Nonces}

Bytes == {0, 1, 64, 128, 255}
DigestInputs == {<<>>} \cup {<<a>> : a \in Bytes} \cup {<<a, b>> : a, b \in Bytes}
BitsInputs == -1..17

InitPoW ==
    /\ InitState
    /\ pure \in {[fn |-> "hasLeadingZeroBits", digest |-> d, bits |-> b,
                   done |-> FALSE, res |-> FALSE] : d \in DigestInputs, b \in BitsInputs}

\* hasLeadingZeroBits applied to the drawn digest and bit count
CheckBits ==
    /\ pure.fn = "hasLeadingZeroBits"
    /\ ~pure.done
    /\ pure' = [pure EXCEPT !.done = TRUE,
                            !.res = hasLeadingZeroBits(pure.digest, pure.bits)]
    /\ UNCHANGED <<now, last, cmVars, trackVars, concVars, limVars, dupVars, req, tickets>>

\* address A asks for a new challenge once the one before it is consumed,
\* removed or past its expiry; B is the address that was not given it
IssuePoW ==
    \E ip \in {"A"}, powBits \in PoWBitsInputs :
        /\ issued < NumIDs
        /\ \A i \in DOMAIN records : records[i].ExpiresAt < now
        /\ Issue(ip, powBits, issued + 1)
        /\ pure' = NoPure
        /\ UNCHANGED <<trackVars, concVars, limVars, dupVars, req, tickets>>

\* submissions naming the challenge issued last
VerifyPoW ==
    \E ip \in IPs, id \in {issued} \cap IDs :
        \E sub \in PoWSubmissions(id) :
            \E sig \in SignatureInputs(id, sub[1]) :
                /\ VerifySubmission(ip, id, sub[1], sig, sub[2][1], sub[2][2])
                /\ pure' = NoPure
                /\ UNCHANGED <<trackVars, concVars, limVars, dupVars, req, tickets>>

NextPoW == CheckBits \/ IssuePoW \/ VerifyPoW \/ Tick

SpecPoW == InitPoW /\ [][NextPoW]_vars

\* ---- handleCreateIssue: POST /v1/feedback/issues on a server with the local
\* limiter and detector

\* request bodies: one whose read fails, one that is no JSON, one that fails
\* Validate, and two valid feedback texts
Contents == {"c1", "c2"}
Bodies == {"unreadable", "notjson", "invalid"} \cup Contents

\* allowRate: key := fmt.Sprintf("%s:%s", action, clientIP)
rateKey(action, clientIP) == <<action, clientIP>>

\* dedupeKey: the hash of the address and the normalized text
dedupeKey(clientIP, body) == <<clientIP, body>>

\* the stages of the handler that are reached, from the outcomes before them
AllowReached(r) == r.ua

VerifyReached_BeforeAllow(r, allowed) == r.ua /\ r.body # "unreadable" /\ r.headers

VerifyReached(r, allowed) == r.ua /\ allowed /\ r.body # "unreadable" /\ r.headers

SeenReached_BeforeVerify(r, verified) == r.body \in Contents

SeenReached(r, verified) == verified /\ r.body \in Contents

CreateReached(seenReached, seen) == seenReached /\ ~seen

\* s.tickets.Set is called once CreateIssue returned without error; it puts
\* the token into its records before it saves them
SetReached(createReached, created) == createReached /\ created

\* the HTTP status the handler writes
StatusOf(r, allowed, vres, seen) ==
    IF ~r.ua THEN 403
    ELSE IF ~allowed THEN 429
    ELSE IF r.body = "unreadable" THEN 400
    ELSE IF ~r.headers THEN 401
    ELSE IF vres = "ErrClientBlocked" THEN 429
    ELSE IF vres # "nil" THEN 401
    ELSE IF r.body \notin Contents THEN 400
    ELSE IF seen THEN 409
    ELSE IF ~r.gh THEN 502
    ELSE IF ~r.set THEN 500
    ELSE 200

handleCreateIssue(r, limit) ==
    LET key == rateKey("submit", r.ip)
        allowed == AllowResult(limRecords, key, limit, RateWindow, now)
        vres == VerifyResult(cleanupRecords(records, now),
                             cleanupBlocks(blockedClientIP, now), now, r.ip, r.id,
                             r.ts, r.sig, EmptyNonce, EmptyHash)
        verifyReached == VerifyReached(r, allowed)
        dkey == dedupeKey(r.ip, r.body)
        seenReached == SeenReached(r, verifyReached /\ vres = "nil")
        seen == SeenResult(dupRecords, dkey, DuplicateWindow, now)
    IN /\ limiter = "local"
       /\ IF AllowReached(r)
          THEN /\ limRecords' = AllowRecords(limRecords, key, limit, RateWindow, now)
               /\ lim' = [NoAllow EXCEPT
                             !.op = "Allow", !.key = key, !.limit = limit,
                             !.window = RateWindow, !.res = allowed,
                             !.open = ObsOpenCount(limRecords, key, RateWindow),
                             !.prev = ObsStoredCount(limRecords, key),
                             !.changed = limRecords' # limRecords]
          ELSE /\ lim' = NoAllow
               /\ UNCHANGED limRecords
       /\ IF verifyReached
          THEN VerifySubmission(r.ip, r.id, r.ts, r.sig, EmptyNonce, EmptyHash)
          ELSE /\ last' = NoCall("none")
               /\ UNCHANGED <<now, cmVars>>
       /\ IF seenReached
          THEN /\ dupRecords' = SeenRecords(dupRecords, dkey, DuplicateWindow, now)
               /\ dup' = [NoSeen EXCEPT
                             !.op = "SeenRecently", !.key = dkey,
                             !.window = DuplicateWindow, !.res = seen,
                             !.before = ObsExpiry(dupRecords, dkey),
                             !.changed = dupRecords' # dupRecords]
          ELSE /\ dup' = NoSeen
               /\ UNCHANGED dupRecords
       /\ req' = [ip |-> r.ip, id |-> r.id, ua |-> r.ua, headers |-> r.headers,
                   body |-> r.body,
                   created |-> CreateReached(seenReached, seen),
                   status |-> StatusOf(r, allowed, vres, seen),
                   cmChanged |-> <<records', blockedClientIP'>> # <<records, blockedClientIP>>,
                   dupChanged |-> dupRecords' # dupRecords]
       /\ tickets' = IF SetReached(CreateReached(seenReached, seen), r.gh)
                     THEN tickets \cup {dkey} ELSE tickets
       /\ UNCHANGED <<trackVars, concVars, limiter, fallbackRecords, redisRate, calls, grants,
                      dupFallback, redisDedupe, noted, misses, pure>>

\* ---- mapIssueStatus

\* strings.ToLower on the texts that occur as labels and states
ToLower(str) ==
    CASE str = "Status/Triage" -> "status/triage"
      [] str = "STATUS/RESOLVED" -> "status/resolved"
      [] str = "Closed" -> "closed"
      [] str = "CLOSED" -> "closed"
      [] OTHER -> str

EqualFold(a, b) == ToLower(a) = ToLower(b)

containsLabel(labels, target) == \E i \in DOMAIN labels : labels[i] = target

mapIssueStatus(state, labels) ==
    LET lowered == [i \in DOMAIN labels |-> ToLower(labels[i])]
    IN IF containsLabel(lowered, "status/triage") THEN "triage"
       ELSE IF containsLabel(lowered, "status/in-progress") THEN "in_progress"
       ELSE IF containsLabel(lowered, "status/blocked") THEN "blocked"
       ELSE IF containsLabel(lowered, "status/resolved") THEN "resolved"
       ELSE IF EqualFold(state, "closed") THEN "closed"
       ELSE "in_progress"

\* issue states and labels as GitHub returns them, in the cases they come in
StateInputs == {"open", "closed", "Closed", "CLOSED"}
LabelInputs ==
    {"status/triage", "Status/Triage", "status/in-progress", "status/blocked",
     "status/resolved", "STATUS/RESOLVED", "type/bug", "source/app-feedback"}
LabelLists ==
    {<<>>} \cup {<<a>> : a \in LabelInputs} \cup {<<a, b>> : a, b \in LabelInputs}

InitStatus ==
    /\ InitState
    /\ pure \in {[fn |-> "mapIssueStatus", state |-> st, labels |-> ls,
                   done |-> FALSE, res |-> ""] : st \in StateInputs, ls \in LabelLists}

\* mapIssueStatus applied to the drawn state and labels
MapStatus ==
    /\ pure.fn = "mapIssueStatus"
    /\ ~pure.done
    /\ pure' = [pure EXCEPT !.done = TRUE,
                            !.res = mapIssueStatus(pure.state, pure.labels)]
    /\ UNCHANGED <<now, last, cmVars, trackVars, concVars, limVars, dupVars, req, tickets>>

NextStatus == MapStatus

SpecStatus == InitStatus /\ [][NextStatus]_vars

\* ---- the submission handler

\* main: no REDIS_ADDR, the server is built with the local limiter and detector
NewServer == NewLimiter("local")

\* the client is given a challenge
IssueToClient ==
    \E ip \in {"A"} :
        /\ limiter = "local"
        /\ issued < NumIDs
        /\ Issue(ip, 0, issued + 1)
        /\ lim' = NoAllow /\ dup' = NoSeen /\ req' = NoReq
        /\ UNCHANGED <<trackVars, concVars, limiter, limRecords, fallbackRecords,
                       redisRate, calls, grants, dupRecords, dupFallback, redisDedupe,
                       noted, misses, pure, tickets>>

\* a well-formed signed request for the challenge, and the same with one thing
\* wrong
GoodRequest(ip, id) ==
    [ip |-> ip, id |-> id, ua |-> TRUE, headers |-> TRUE, ts |-> Decimal(now),
     sig |-> HMAC(secretOf[id], Decimal(now)), body |-> "c1", gh |-> TRUE, set |-> TRUE]

Requests(ip, id) ==
    LET g == GoodRequest(ip, id)
    IN {[g EXCEPT !.body = b] : b \in Bodies}
           \cup {[g EXCEPT !.ua = FALSE], [g EXCEPT !.headers = FALSE],
                 [g EXCEPT !.ts = Unparsable], [g EXCEPT !.sig = Garbage],
                 [g EXCEPT !.gh = FALSE], [g EXCEPT !.set = FALSE]}

\* SUBMIT_LIMIT_PER_WINDOW is set so that one address can submit twice in a
\* rate window, which is what lets a repeated text reach the detector
SubmitLimitSet == SubmitLimitPerWindow + 1

HandleAny ==
    \E ip \in {"A"}, id \in IDs :
        \E r \in Requests(ip, id) : handleCreateIssue(r, SubmitLimitSet)

NextHandler == NewServer \/ IssueToClient \/ HandleAny \/ Tick

SpecHandler == Init /\ [][NextHandler]_vars

\* ---- failures on challenges that are live side by side

\* address A holds up to NumIDs challenges at a time, with and without proof
\* of work
IssueSeveral ==
    \E powBits \in {0, 1} :
        /\ issued < NumIDs
        /\ Issue("A", powBits, issued + 1)
        /\ UNCHANGED <<trackVars, concVars, limVars, dupVars, pure, req, tickets>>

\* proofs of work that fail (no nonce, oversized) and nonces that may pass
FailingPoWInputs == {EmptyNonce, LongNonce} \cup Nonces

\* submissions with a current timestamp on any of the challenges
VerifySeveral ==
    \E ip \in IPs, id \in IDs, n \in FailingPoWInputs :
        \E sig \in SignatureInputs(id, Decimal(now)) :
            /\ VerifySubmission(ip, id, Decimal(now), sig, n, EmptyHash)
            /\ UNCHANGED <<trackVars, concVars, limVars, dupVars, pure, req, tickets>>

NextFailures == IssueSeveral \/ VerifySeveral \/ Tick

SpecFailures == Init /\ [][NextFailures]_vars

\* crypto/rand identifiers do not repeat: the id drawn by the n-th Issue call is
\* new, and is named n
IssueFresh ==
    \E ip \in IPs :
        issued < NumIDs /\ Issue(ip, 0, issued + 1) /\ UNCHANGED <<trackVars, concVars, limVars, dupVars, pure, req, tickets>>

VerifyNoPoW ==
    \E ip \in IPs, id \in IDs, ts \in TimestampInputs :
        \E sig \in SignatureInputs(id, ts) :
            /\ VerifySubmission(ip, id, ts, sig, EmptyNonce, EmptyHash)
            /\ UNCHANGED <<trackVars, concVars, limVars, dupVars, pure, req, tickets>>

Next == IssueFresh \/ VerifyNoPoW \/ Tick

Spec == Init /\ [][Next]_vars

\* ---- identifiers as randomHex draws them

\* randomHex(16) is 16 bytes of crypto/rand, or on a read error the hash of
\* the clock: any identifier can come out, one drawn before included, and
\* Issue stores the record under it without looking at the map
IssueDrawn ==
    \E ip \in IPs, id \in IDs :
        /\ issued < NumIDs
        /\ Issue(ip, 0, id)
        /\ UNCHANGED <<trackVars, concVars, limVars, dupVars, pure, req, tickets>>

NextDrawn == IssueDrawn \/ VerifyNoPoW \/ Tick

SpecDrawn == Init /\ [][NextDrawn]_vars

\* the same calls, with the failures each address and challenge collected
VerifyTracked ==
    \E ip \in IPs, id \in IDs, ts \in TimestampInputs :
        \E sig \in SignatureInputs(id, ts) :
            /\ VerifySubmission(ip, id, ts, sig, EmptyNonce, EmptyHash)
            /\ TrackFailures(ip, id)
            /\ UNCHANGED <<concVars, limVars, dupVars, pure, req, tickets>>

NextTracked == IssueFresh \/ VerifyTracked \/ Tick

SpecTracked == Init /\ [][NextTracked]_vars

TypeOK ==
    /\ now \in 0..MaxTime
    /\ DOMAIN records \subseteq IDs
    /\ DOMAIN blockedClientIP \subseteq IPs

\* goroutines racing through VerifySubmission; Issue takes the same mutex
IssueLocked ==
    \E ip \in IPs :
        /\ LockAvailable
        /\ issued < NumIDs
        /\ Issue(ip, 0, issued + 1)
        /\ UNCHANGED <<trackVars, concVars, limVars, dupVars, pure, req, tickets>>

\* one clock unit is long against the run of a call: the clock moves while
\* no call is in flight
TickQuiet == (\A g \in Procs : pc[g] = "idle") /\ Tick

VCallAny ==
    \E g \in Procs, ip \in IPs, id \in IDs :
        \E sig \in SignatureInputs(id, Decimal(now)) :
            VCall(g, ip, id, Decimal(now), sig)

NextConc ==
    \/ IssueLocked
    \/ VCallAny
    \/ \E g \in Procs : VLock(g)
    \/ \E g \in Procs : VCheck(g)
    \/ \E g \in Procs : VReturn(g)
    \/ TickQuiet

SpecConc == Init /\ [][NextConc]_vars

\* the limiters under the handlers' calls: each key with its configured limit
\* and the one configured window, and calls with a limit that is not positive
LimitInputs(key) ==
    {<<LimitOf(key), RateWindow>>} \cup ({0, -1} \X {0, RateWindow})

AllowAny ==
    \E key \in Keys : \E a \in LimitInputs(key) : Allow(key, a[1], a[2])

RedisAllowAny ==
    \E key \in Keys, remote \in RemoteOutcomes :
        \E a \in LimitInputs(key) :
            /\ ScriptCurrent(redisRate, key) <= MaxCount
            /\ RedisAllow(key, a[1], a[2], remote)

\* the duplicate detectors under the handler's calls, with the one configured
\* window
DupKeys == {"h1", "h2"}

SeenAny == \E key \in DupKeys : SeenRecently(key, DuplicateWindow)

RedisSeenAny ==
    \E key \in DupKeys, remote \in RemoteOutcomes :
        RedisSeenRecently(key, DuplicateWindow, remote) /\ UNCHANGED misses

NewLimiterAny == \E kind \in {"local", "redis"} : NewLimiter(kind)

NextLimiter == NewLimiterAny \/ AllowAny \/ RedisAllowAny \/ Tick

SpecLimiter == Init /\ [][NextLimiter]_vars

NextDedupe == NewLimiterAny \/ SeenAny \/ RedisSeenAny \/ Tick

SpecDedupe == Init /\ [][NextDedupe]_vars

\* the Redis-backed limiter and detector of one server, as its handlers call
\* them: every rate key with its configured limit, one content fingerprint
RedisAllowConfigured ==
    \E key \in Keys, remote \in RemoteOutcomes :
        /\ ScriptCurrent(redisRate, key) <= MaxCount
        /\ RedisAllow(key, LimitOf(key), RateWindow, remote)

RedisSeenOne ==
    \E remote \in RemoteOutcomes :
        RedisSeenRecently("h1", DuplicateWindow, remote) /\ UNCHANGED misses

NextRemote == NewLimiterAny \/ RedisAllowConfigured \/ RedisSeenOne \/ Tick

SpecRemote == Init /\ [][NextRemote]_vars

\* two handler goroutines of a server on the local limiter: status queries of
\* address A counted under its rate key
ACallAny == \E g \in Procs : ACall(g, "query:A", QueryLimitPerWindow, RateWindow)

NextLocalConc ==
    \/ NewLimiter("local")
    \/ ACallAny
    \/ \E g \in Procs : ADecide(g)
    \/ Tick

SpecLocalConc == Init /\ [][NextLocalConc]_vars

\* callers of one local limiter that give each key a window of its own: the
\* status queries a longer one, the submissions a shorter one
WindowOf(key) == IF key = "query:A" THEN RateWindow + 1 ELSE RateWindow - 1

AllowWindows == \E key \in Keys : Allow(key, LimitOf(key), WindowOf(key))

NextWindows == NewLimiter("local") \/ AllowWindows \/ Tick

SpecWindows == Init /\ [][NextWindows]_vars

\* two handler goroutines of a server on Redis: submissions of address A
\* counted under its rate key, carrying one and the same text
NewServerRedis == NewLimiter("redis")

RAllowCallAny ==
    \E g \in Procs :
        /\ ScriptCurrent(redisRate, "submit:A") <= MaxCount
        /\ RAllowCall(g, "submit:A", SubmitLimitPerWindow, RateWindow)

RSeenCallAny == \E g \in Procs : RSeenCall(g, "h1", DuplicateWindow)

NextRedisRate ==
    \/ NewServerRedis
    \/ RAllowCallAny
    \/ \E g \in Procs : RAllowScript(g)
    \/ \E g \in Procs, remote \in RemoteOutcomes : RAllowReturn(g, remote)
    \/ Tick

SpecRedisRate == Init /\ [][NextRedisRate]_vars

NextRedisSetNX ==
    \/ NewServerRedis
    \/ RSeenCallAny
    \/ \E g \in Procs : RSetNX(g)
    \/ \E g \in Procs, remote \in RemoteOutcomes : RSeenReturn(g, remote)
    \/ Tick

SpecRedisSetNX == Init /\ [][NextRedisSetNX]_vars

\* one server process on Redis through outages and recoveries: submissions of
\* one text from one address, each SetNX answered, not reaching Redis, or
\* carried out with the answer lost; the calls that returned false are counted
RedisSeenCounted ==
    \E remote \in RemoteOutcomes :
        /\ RedisSeenRecently("h1", DuplicateWindow, remote)
        /\ misses' = CountMiss("h1", dup'.res)

NextOutages == NewServerRedis \/ RedisSeenCounted \/ Tick

SpecOutages == Init /\ [][NextOutages]_vars

\* the Redis-backed limiter of a server whose Redis answers every call, and a
\* local FixedWindowLimiter that is given the same calls at the same times
AllowBoth(key, limit, window) ==
    /\ limiter = "redis"
    /\ redisRate' = IF RedisLimitDenies(limit) THEN redisRate
                    ELSE ScriptRate(redisRate, key, window, now)
    /\ limRecords' = AllowRecords(limRecords, key, limit, window, now)
    /\ calls' = IF limit > 0 THEN CountCall(key, window) ELSE calls
    /\ lim' = [op |-> "AllowBoth", key |-> key, limit |-> limit, window |-> window,
               res |-> IF RedisLimitDenies(limit) THEN FALSE
                       ELSE ScriptResult(redisRate, key, limit) = 1,
               local |-> AllowResult(limRecords, key, limit, window, now),
               remote |-> IF RedisLimitDenies(limit) THEN "none" ELSE "answered",
               nth |-> IF limit > 0 THEN ObsNth(key, window) ELSE 0,
               open |-> ObsOpenCount(limRecords, key, window),
               prev |-> ObsStoredCount(limRecords, key),
               changed |-> (redisRate' # redisRate \/ limRecords' # limRecords),
               count |-> ObsRedisCount(key),
               fbChanged |-> FALSE]
    /\ dup' = NoSeen
    /\ UNCHANGED <<now, last, cmVars, trackVars, concVars, limiter, grants, fallbackRecords,
                   dupRecords, dupFallback, redisDedupe, noted, misses, pure, req, tickets>>

AllowBothAny ==
    \E key \in Keys : \E a \in LimitInputs(key) :
        /\ ScriptCurrent(redisRate, key) <= MaxCount
        /\ AllowBoth(key, a[1], a[2])

NextBoth == NewServerRedis \/ AllowBothAny \/ Tick

SpecBoth == Init /\ [][NextBoth]_vars

\* ================================================================== claims

\* C1: for every challenge identifier, at most one VerifySubmission call
\* naming it returns success, whatever calls are made from whatever addresses.
C1_AtMostOneSuccess == \A id \in IDs : successes[id] <= 1

\* a valid submission was repeated after it had succeeded, and was refused
C1_Witness ==
    /\ last.op = "Verify" /\ last.done /\ successes[last.id] = 1
    /\ last.sg /\ last.fresh /\ ~last.blocked /\ last.res # "nil"

\* C2 (as claimed): once a VerifySubmission naming an identifier has succeeded,
\* every later VerifySubmission naming it from a non-blocked client returns
\* ErrChallengeUsed.
C2_ReuseReturnsUsed ==
    (last.op = "Verify" /\ last.done /\ ~last.blocked)
        => last.res = "ErrChallengeUsed"

\* C3: of the VerifySubmission calls racing on one challenge identifier at most
\* one returns success, the call whose checks find the record live and the
\* submission valid is the one that succeeds, and the checks and writes of one
\* call never overlap those of another: whoever is past m.mu.Lock() holds the
\* mutex alone.
C3_OneRaceWinner ==
    /\ \A id \in IDs : successes[id] <= 1
    /\ (last.op = "VReturn" /\ last.sg /\ last.rec = "live" /\ last.own /\ ~last.blocked)
           => last.res = "nil"
    /\ \A g, h \in Procs :
           (pc[g] \in {"locked", "checked"} /\ pc[h] \in {"locked", "checked"}) => g = h
    /\ \A g \in Procs : pc[g] \in {"locked", "checked"} => mu = g

\* a correctly signed call entered while another call on the same, not yet
\* consumed identifier was in flight; that identifier was consumed once
\* meanwhile, and this call returns a failure
C3_Witness ==
    /\ last.op = "VReturn" /\ last.raced /\ last.sg /\ ~last.blocked
    /\ last.res # "nil"
    /\ successes[last.id] = 1

\* C4 (as claimed): a VerifySubmission by the issuing, non-blocked client made
\* after the challenge's expiry, with a fresh timestamp and the correct
\* signature, returns ErrChallengeExpired and the record is deleted.
C4_ExpiredReturnsExpired ==
    (last.op = "Verify" /\ ~last.blocked /\ last.rec = "expired" /\ last.own
        /\ last.fresh /\ last.sg)
        => (last.res = "ErrChallengeExpired" /\ last.id \notin DOMAIN records)

\* C5: a VerifySubmission from an address with an active block returns
\* ErrClientBlocked whatever challenge it names (live, missing, brand new with
\* the correct signature), and changes no record.
C5_BlockedAlwaysRejected ==
    (last.op = "Verify" /\ last.blocked)
        => (last.res = "ErrClientBlocked" /\ ~last.touched)

\* a blocked client presented an untouched live challenge of its own with a
\* fresh timestamp and the correct signature
C5_Witness ==
    /\ last.op = "Verify" /\ last.blocked /\ last.rec = "live" /\ last.own
    /\ last.fc = 0 /\ last.fresh /\ last.sg
    /\ last.res = "ErrClientBlocked"
    /\ last.id \in DOMAIN records

C7_OtherAddressMismatch ==
    (last.op = "Verify" /\ ~last.blocked /\ last.rec = "live" /\ ~last.own)
        => last.res = "ErrChallengeIPMismatch"

\* another address presented a live challenge with a fresh timestamp and the
\* holder's correct signature
C7_Witness ==
    /\ last.op = "Verify" /\ ~last.blocked /\ last.rec = "live" /\ ~last.own
    /\ last.fresh /\ last.sg /\ last.res = "ErrChallengeIPMismatch"

\* C8: for a live challenge presented by its issuing, non-blocked client, a
\* timestamp further than the skew from the clock (or unparsable) returns
\* ErrTimestampInvalid even with the correct signature, and a timestamp within
\* the skew with the correct signature (no proof of work required) succeeds.
C8_TimestampWindow ==
    (last.op = "Verify" /\ ~last.blocked /\ last.rec = "live" /\ last.own)
        => /\ ~last.fresh => last.res = "ErrTimestampInvalid"
           /\ (last.fresh /\ last.sg /\ last.bits = 0) => last.res = "nil"

\* a correctly signed submission was refused for its timestamp alone
C8_Witness ==
    /\ last.op = "Verify" /\ ~last.blocked /\ last.rec = "live" /\ last.own
    /\ ~last.fresh /\ last.sg /\ last.res = "ErrTimestampInvalid"

\* C9: on the local limiter, counting a key's calls from the first call of a
\* window, call number n in the window returns true exactly when n is at most
\* the limit; a call made once the window has elapsed (or with no record)
\* is number 1 again, returns true and stores count 1 with the window start at
\* the time of that call; the stored window start is that of the first call.
C9_FixedWindow ==
    (lim.op = "Allow" /\ lim.limit > 0) =>
        /\ lim.res = (lim.nth <= lim.limit)
        /\ lim.key \in DOMAIN limRecords
        /\ limRecords[lim.key].WindowStart = calls[lim.key].Start
        /\ lim.nth = 1 => limRecords[lim.key] = [WindowStart |-> now, Count |-> 1]

\* the window of a key that had used up its limit has elapsed, and the next
\* call is allowed and starts a new window with count 1
C9_Witness ==
    /\ lim.op = "Allow" /\ lim.limit = QueryLimitPerWindow /\ lim.key = "query:A"
    /\ lim.nth = 1 /\ lim.res /\ now >= RateWindow
    /\ lim.prev = QueryLimitPerWindow
    /\ calls[lim.key].Start = now
    /\ limRecords[lim.key].Count = 1

\* C10: Allow with a limit that is not positive returns false on the local and
\* on the Redis-backed limiter, whatever the key and the window, runs no
\* script on Redis and leaves the local records, the fallback records and the
\* Redis keys as they were.
C10_NonPositiveLimitDenies ==
    (lim.op \in {"Allow", "RedisAllow"} /\ lim.limit <= 0) =>
        (~lim.res /\ ~lim.changed /\ lim.remote = "none")

\* a call with a negative limit on a key whose Redis counter and whose
\* fallback record both have room left is denied
C10_Witness ==
    /\ lim.op = "RedisAllow" /\ lim.limit < 0 /\ ~lim.res
    /\ lim.key \in DOMAIN redisRate /\ redisRate[lim.key].Count < LimitOf(lim.key)
    /\ lim.open > 0 /\ lim.open < LimitOf(lim.key)

\* C11: on the local detector a SeenRecently call returns true exactly when an
\* earlier call for the key returned false and the expiry that call recorded
\* (its time plus the window) is still strictly ahead; such a call leaves the
\* stored expiry as it was, and a call that returns false stores its own time
\* plus the window.
C11_NoSlidingWindow ==
    dup.op = "SeenRecently" =>
        /\ dup.res = dup.expected
        /\ dup.key \in DOMAIN dupRecords
        /\ dupRecords[dup.key] = noted[dup.key]
        /\ dup.res => (dupRecords[dup.key] = dup.before /\ ~dup.changed)
        /\ ~dup.res => dupRecords[dup.key] = now + dup.window

\* a call made exactly at the recorded expiry returns false and records anew
C11_Witness ==
    /\ dup.op = "SeenRecently" /\ ~dup.res
    /\ dup.before = now /\ now > 0
    /\ dupRecords[dup.key] = now + DuplicateWindow

\* C12: when the Redis call of the limiter or of the detector fails (not
\* reached, or timed out), the call returns what the private fallback decides on
\* its own records: Allow is granted exactly when the fallback's open window
\* has room, and the fallback then holds that window with the call counted;
\* SeenRecently is true exactly when the fallback holds an expiry still ahead,
\* and the fallback then holds that expiry, or a new one when it was false.
C12_FailedRemoteFallsBack ==
    /\ (lim.op = "RedisAllow" /\ lim.remote \in {"unreached", "timeout"}) =>
           /\ lim.res = (lim.open < lim.limit)
           /\ lim.key \in DOMAIN fallbackRecords
           /\ fallbackRecords[lim.key].Count = IF lim.res THEN lim.open + 1 ELSE lim.open
           /\ lim.open = 0 => fallbackRecords[lim.key].WindowStart = now
    /\ (dup.op = "RedisSeenRecently" /\ dup.remote \in {"unreached", "timeout"}) =>
           /\ dup.res = (dup.before > now)
           /\ dup.key \in DOMAIN dupFallback
           /\ dupFallback[dup.key] = IF dup.res THEN dup.before ELSE now + dup.window

\* Redis has counted past the limit, the call times out, and the fallback,
\* which has room, grants it
C12_Witness ==
    /\ lim.op = "RedisAllow" /\ lim.remote = "timeout" /\ lim.res
    /\ lim.count >= lim.limit /\ lim.open > 0
    /\ fallbackRecords[lim.key].Count = lim.open + 1

\* C13: a call that Redis answers is decided by Redis alone, whatever the
\* failed calls before it left in the fallback: Allow is granted exactly when
\* the incremented counter is within the limit, SeenRecently is true exactly
\* when Redis held the key, and the fallback records stay as they were.
C13_AnsweredRemoteDecides ==
    /\ (lim.op = "RedisAllow" /\ lim.remote = "answered") =>
           /\ lim.res = (lim.count + 1 <= lim.limit)
           /\ ~lim.fbChanged
    /\ (dup.op = "RedisSeenRecently" /\ dup.remote = "answered") =>
           /\ dup.res = dup.held
           /\ ~dup.changed

\* earlier failed calls left the fallback holding an expiry still ahead for a
\* key; Redis is back, does not hold the key, and answers "not seen"
C13_Witness ==
    /\ dup.op = "RedisSeenRecently" /\ dup.remote = "answered" /\ ~dup.res
    /\ dup.before > now
    /\ dupFallback[dup.key] = dup.before

\* the submission got as far as the proof-of-work step of a record that asks
\* for proof of work
AtPoWStep ==
    /\ last.op = "Verify" /\ ~last.blocked /\ last.rec = "live" /\ last.own /\ last.fresh
    /\ last.bits > 0

\* C14: for a challenge issued with positive difficulty, a submission from the
\* issuing client with a fresh timestamp, a nonce whose digest has at least
\* that many leading zero bits, the hash of that digest and a correct signature
\* returns success, and the challenge is gone from the map.
C14_ValidPoWAccepted ==
    (AtPoWStep /\ last.nk = "nonce" /\ last.lz >= last.bits /\ last.hk = "match" /\ last.sg)
        => (last.res = "nil" /\ last.id \notin DOMAIN records /\ successes[last.id] = 1)

\* a difficulty that reaches into the second digest byte is met
C14_Witness ==
    /\ AtPoWStep /\ last.nk = "nonce" /\ last.hk = "match" /\ last.sg
    /\ last.bits = 9 /\ last.lz >= 9
    /\ last.res = "nil" /\ last.id \notin DOMAIN records

\* C15: for a challenge issued with positive difficulty, a submission that
\* reaches the proof-of-work step with an empty or blank nonce returns
\* ErrPoWMissing, correct signature or not, and counts as a failure of that
\* record: its failure count goes up by one, and at the threshold the record is
\* removed.
C15_MissingNonceCounts ==
    (AtPoWStep /\ last.nk \in {"empty", "blank"}) =>
        /\ last.res = "ErrPoWMissing"
        /\ IF last.fc + 1 >= failThreshold
           THEN last.id \notin DOMAIN records
           ELSE last.id \in DOMAIN records /\ records[last.id].FailCount = last.fc + 1

\* a correctly signed submission with a blank nonce is counted against a
\* record that had no failure yet
C15_Witness ==
    /\ AtPoWStep /\ last.nk = "blank" /\ last.sg /\ last.fc = 0
    /\ last.res = "ErrPoWMissing"
    /\ records[last.id].FailCount = 1

\* C16: hasLeadingZeroBits(digest, bits) is true exactly when bits is not
\* positive or the digest begins with at least that many zero bits, counted
\* from the most significant bit of the first byte on (so never when bits
\* exceeds the length of the digest); and a submission at the proof-of-work
\* step whose digest begins with fewer zero bits than the difficulty returns
\* ErrPoWInvalid.
C16_LeadingZeroBits ==
    /\ (pure.fn = "hasLeadingZeroBits" /\ pure.done) =>
           pure.res = (pure.bits <= 0 \/ pure.bits <= ObsLeadingZeros(pure.digest))
    /\ (AtPoWStep /\ last.nk = "nonce" /\ last.lz < last.bits) => last.res = "ErrPoWInvalid"

\* a digest of seven leading zero bits against a difficulty of nine, signed
\* correctly
C16_Witness ==
    /\ AtPoWStep /\ last.nk = "nonce" /\ last.lz = 7 /\ last.bits = 9 /\ last.sg
    /\ last.res = "ErrPoWInvalid"

\* the error of the first step that refuses the submission, from what the
\* caller supplied and the state the call met; a record past its expiry is
\* refused at the look-up
ObsFirstFailure ==
    IF last.blocked THEN "ErrClientBlocked"
    ELSE IF last.rec # "live" THEN "ErrChallengeMissing"
    ELSE IF ~last.own THEN "ErrChallengeIPMismatch"
    ELSE IF ~last.fresh THEN "ErrTimestampInvalid"
    ELSE IF last.bits > 0 /\ last.nk \in {"empty", "blank"} THEN "ErrPoWMissing"
    ELSE IF last.bits > 0 /\ (last.nk = "long" \/ last.lz < last.bits \/ last.hk = "other")
         THEN "ErrPoWInvalid"
    ELSE IF ~last.sg THEN "ErrSignatureInvalid"
    ELSE "nil"

\* C20: VerifySubmission returns the error of the earliest step that fails, in
\* the order block, look-up, address, timestamp, proof of work, signature: a
\* timestamp that is unparsable or outside the skew gives ErrTimestampInvalid
\* whatever the proof of work and the signature, and a failed proof of work is
\* reported rather than ErrSignatureInvalid when the signature is wrong too.
C20_FirstFailureWins == last.op = "Verify" => last.res = ObsFirstFailure

\* proof of work and signature are both wrong, and the proof of work is named
C20_Witness ==
    /\ AtPoWStep /\ last.nk = "nonce" /\ last.lz < last.bits /\ ~last.sg
    /\ last.res = "ErrPoWInvalid"

\* the call met no block on its address and left one that has not run out: the
\* block was made by this call
ObsBlockMade ==
    /\ ~last.blocked
    /\ last.ip \in DOMAIN blockedClientIP
    /\ now < blockedClientIP[last.ip]

\* the step that refused the submission is the proof of work or the signature
ObsCountedFailure ==
    ObsFirstFailure \in {"ErrPoWMissing", "ErrPoWInvalid", "ErrSignatureInvalid"}

\* C19: the failure counter belongs to the challenge record. A VerifySubmission
\* makes a block for its caller exactly when it fails at the proof of work or
\* the signature and that brings the named record's own count to the
\* threshold; the block lasts blockDuration and the record is deleted. A
\* failure that leaves the record below the threshold adds one to that record
\* alone and makes no block, whatever the other records of the caller count.
C19_BlockWhenOneRecordReachesThreshold ==
    last.op = "Verify" =>
        /\ ObsBlockMade <=> (ObsCountedFailure /\ last.fc + 1 >= failThreshold)
        /\ ObsBlockMade =>
               /\ blockedClientIP[last.ip] = now + blockDuration
               /\ last.id \notin DOMAIN records
        /\ (ObsCountedFailure /\ last.fc + 1 < failThreshold) =>
               /\ last.id \in DOMAIN records
               /\ records[last.id].FailCount = last.fc + 1

\* two records of one address have failures that together reach the
\* threshold, the latest one by a proof-of-work failure, and no block exists
C19_Witness ==
    /\ last.op = "Verify" /\ last.res \in {"ErrPoWMissing", "ErrPoWInvalid"}
    /\ \E i, j \in DOMAIN records :
           /\ i # j /\ j = last.id
           /\ records[i].IssuedIP = last.ip /\ records[j].IssuedIP = last.ip
           /\ records[i].FailCount + records[j].FailCount >= failThreshold
    /\ last.ip \notin DOMAIN blockedClientIP

\* C18: mapIssueStatus returns "closed" whenever the issue state is closed,
\* also when the labels hold status labels such as status/triage or
\* status/in-progress. The code looks at the status labels first and returns
\* what they say, so this does not hold of it.
C18_ClosedHasPriority ==
    (pure.fn = "mapIssueStatus" /\ pure.done /\ pure.state \in {"closed", "Closed", "CLOSED"})
        => pure.res = "closed"

\* what the latest request met, read from the state before it
ObsAllowed == lim.op = "Allow" /\ lim.limit > 0 /\ lim.open < lim.limit
ObsVerified == last.op = "Verify" /\ ObsFirstFailure = "nil"
ObsSeen == dup.op = "SeenRecently" /\ now < dup.before

\* C17: in handleCreateIssue the issue is created only after the limiter's
\* Allow returned true, then VerifySubmission returned nil, then SeenRecently
\* returned false, each called only after the one before it let the request
\* pass; a request refused at one stage does not reach the later ones, whose
\* state it leaves as it was.
C17_StagesInOrder ==
    req # NoReq =>
        /\ req.created => (ObsAllowed /\ ObsVerified /\ dup.op = "SeenRecently" /\ ~ObsSeen)
        /\ last.op = "Verify" => ObsAllowed
        /\ dup.op = "SeenRecently" => ObsVerified
        /\ (lim.op = "Allow" /\ ~ObsAllowed) =>
               /\ last.op # "Verify" /\ dup.op # "SeenRecently"
               /\ ~req.cmChanged /\ ~req.dupChanged /\ ~req.created
               /\ req.status = 429
        /\ (last.op = "Verify" /\ ~ObsVerified) =>
               /\ dup.op # "SeenRecently" /\ ~req.dupChanged /\ ~req.created
               /\ req.status \in {401, 429}
        /\ ObsSeen => (~req.created /\ req.status = 409)
        /\ req.status = 200 => req.created

\* a repeated text: the limiter let the request pass, the challenge was
\* verified and consumed, and the detector then stopped it before the issue
C17_Witness ==
    /\ req # NoReq /\ req.status = 409 /\ ~req.created
    /\ ObsAllowed /\ lim.changed
    /\ ObsVerified /\ req.id \notin DOMAIN records
    /\ ObsSeen

\* ---- steps of the manager, read from the state before and after

\* the records that are not past their expiry when the call is made
ObsLiveBefore == {i \in DOMAIN records : ~(records[i].ExpiresAt < now)}

\* the step put a block on address p or changed the one it had
ObsBlockSet(p) ==
    /\ p \in DOMAIN blockedClientIP'
    /\ (p \notin DOMAIN blockedClientIP \/ blockedClientIP'[p] # blockedClientIP[p])

C21_Step ==
    (last'.op = "Verify" /\ last'.res \in {"ErrClientBlocked", "ErrChallengeMissing",
                                            "ErrChallengeIPMismatch", "ErrTimestampInvalid"})
        => /\ \A i \in ObsLiveBefore : i \in DOMAIN records' /\ records'[i] = records[i]
           /\ \A p \in IPs : ~ObsBlockSet(p)

\* C21: a VerifySubmission that returns ErrClientBlocked, ErrChallengeMissing,
\* ErrChallengeIPMismatch or ErrTimestampInvalid leaves every record that is not
\* past its expiry exactly as it was (not consumed, FailCount as before) and
\* sets no block, so the challenge can still be used by the client it was
\* issued to.
C21_RejectedEarlyLeavesRecord == [][C21_Step]_vars

\* a correctly signed submission with a timestamp outside the skew was refused
\* and its challenge is still there with no failure counted
C21_Witness ==
    /\ last.op = "Verify" /\ last.res = "ErrTimestampInvalid" /\ last.sg
    /\ last.id \in DOMAIN records
    /\ records[last.id].FailCount = 0 /\ ~records[last.id].Used
    /\ last.ip \notin DOMAIN blockedClientIP

C22_Step ==
    /\ (/\ last'.op = "Verify"
        /\ last'.ip \in DOMAIN blockedClientIP
        /\ blockedClientIP[last'.ip] <= now
        /\ last'.rec = "live" /\ last'.own /\ last'.fresh /\ last'.sg /\ last'.bits = 0)
           => last'.res = "nil"
    /\ last'.op \in {"Issue", "Verify"} =>
           \A p \in DOMAIN blockedClientIP :
               blockedClientIP[p] < now =>
                   (p \notin DOMAIN blockedClientIP' \/ blockedClientIP'[p] # blockedClientIP[p])

\* C22: a block has no effect from its expiry time on: a VerifySubmission from
\* the address with a live challenge of its own, a timestamp within the skew
\* and the right signature returns nil although the entry is still in the map,
\* and an Issue or VerifySubmission made after the expiry time removes the
\* entry.
C22_BlockEndsAtExpiry == [][C22_Step]_vars

\* the submission succeeded at the very expiry time of the block, whose entry
\* is still in the map
C22_Witness ==
    /\ last.op = "Verify" /\ last.res = "nil"
    /\ last.ip \in DOMAIN blockedClientIP
    /\ blockedClientIP[last.ip] = now

C24_Step ==
    /\ last'.op \in {"Issue", "Verify"} =>
           /\ \A i \in DOMAIN records' : ~(records'[i].ExpiresAt < now)
           /\ \A p \in DOMAIN blockedClientIP' : ~(blockedClientIP'[p] < now)
    /\ last'.op \notin {"Issue", "Verify"} => UNCHANGED <<records, blockedClientIP>>

\* C24: when an Issue or VerifySubmission call returns, no record and no block
\* in the maps has an expiry before the time of the call; nothing but these
\* calls removes entries, the passing of time alone leaves the maps as they are.
C24_PurgedOnEveryCall == [][C24_Step]_vars

\* time has passed and an expired record and an expired block are still held
C24_Witness ==
    /\ last.op = "Tick"
    /\ \E i \in DOMAIN records : records[i].ExpiresAt < now
    /\ \E p \in DOMAIN blockedClientIP : blockedClientIP[p] < now

C28_Step ==
    last'.op = "Verify" =>
        /\ \A p \in IPs :
               ObsBlockSet(p) =>
                   /\ last'.ip = p
                   /\ last'.id \in DOMAIN records
                   /\ records[last'.id].IssuedIP = p
        /\ \A i \in ObsLiveBefore :
               records[i].IssuedIP # last'.ip =>
                   (i \in DOMAIN records' /\ records'[i] = records[i])

\* C28: a block on an address is set only by a VerifySubmission made from that
\* address on a challenge issued to it; a call from another address, whatever
\* challenge it names, sets no block on the address, and leaves its records
\* as they are: not consumed, FailCount as before.
C28_OthersCannotHarm == [][C28_Step]_vars

\* B submitted a wrong signature on A's challenge, which had one failure of
\* A's own: the count is still one and A has no block
C28_Witness ==
    /\ last.op = "Verify" /\ last.ip = "B" /\ ~last.sg
    /\ last.rec = "live" /\ ~last.own /\ last.fc = failThreshold - 1
    /\ last.id \in DOMAIN records
    /\ records[last.id].IssuedIP = "A"
    /\ records[last.id].FailCount = failThreshold - 1
    /\ "A" \notin DOMAIN blockedClientIP

C29_Step ==
    \A p \in IPs :
        /\ (p \in DOMAIN blockedClientIP /\ now < blockedClientIP[p]) =>
               (p \in DOMAIN blockedClientIP' /\ blockedClientIP'[p] = blockedClientIP[p])
        /\ ObsBlockSet(p) => blockedClientIP'[p] = now + blockDuration

\* C29: while a block is active (the time is before its expiry) no step
\* changes or removes it, submissions of the blocked address included; a block
\* is set to the time of the failure plus blockDuration, so it ends exactly
\* then.
C29_ActiveBlockFixed == [][C29_Step]_vars

\* a blocked address submitted a wrong signature some time into its block, and
\* the block still ends when it did
C29_Witness ==
    /\ last.op = "Verify" /\ last.res = "ErrClientBlocked" /\ ~last.sg
    /\ last.ip \in DOMAIN blockedClientIP
    /\ now < blockedClientIP[last.ip]
    /\ blockedClientIP[last.ip] < now + blockDuration

\* C30: every record in the map has Used = FALSE and a FailCount from 0 to one
\* below the threshold: the step that marks a record used, or brings its
\* FailCount to the threshold, deletes it.
C30_RecordsInMapUnused ==
    \A i \in DOMAIN records :
        /\ ~records[i].Used
        /\ 0 <= records[i].FailCount
        /\ records[i].FailCount < failThreshold

\* the failure that brought the count to the threshold took the record away,
\* while another record of the address stays
C30_Witness ==
    /\ last.op = "Verify" /\ last.res \in FailureErrors
    /\ last.fc = failThreshold - 1
    /\ last.id \notin DOMAIN records
    /\ \E i \in DOMAIN records : records[i].IssuedIP = last.ip

ObsReplied(op) == {g \in Procs : pc[g] = "replied" /\ call[g].op = op}

C26_Step ==
    /\ \A k \in DOMAIN redisRate' :
           /\ redisRate'[k].Count >= 1
           /\ redisRate'[k].ExpireAt # NoTTL
           /\ IF k \in DOMAIN redisRate
              THEN redisRate'[k].ExpireAt = redisRate[k].ExpireAt
              ELSE /\ redisRate'[k].Count = 1
                   /\ redisRate'[k].ExpireAt = now + RateWindow
    /\ \A g \in ObsReplied("Allow")' :
           (call'[g].reply = 0) <=> (call'[g].seen + 1 > call'[g].limit)
    /\ (lim'.op = "RedisAllow" /\ lim'.remote = "answered") =>
           (~lim'.res <=> lim'.count + 1 > lim'.limit)

\* C26: Redis runs the increment and the expiry of the first increment as one
\* command. Whatever the order in which the scripts of concurrent Allow calls
\* run, two first calls included, a counter that exists has a value of at
\* least 1 and an expiry; the expiry is set when the counter goes from 0 to 1,
\* to the time of that call plus the window, and stays as it is on later
\* increments; and an answered call returns false exactly when the count
\* after its own increment is above the limit.
C26_IncrementAndExpiryAreOne == [][C26_Step]_vars

\* two first requests at the same time: both scripts ran before either reply
\* was read, one took the counter from 0 to 1 and is let in, the other is not
C26_Witness ==
    /\ ObsReplied("Allow") = Procs
    /\ \E g, h \in Procs :
           /\ call[g].seen = 0 /\ call[g].reply = 1
           /\ call[h].seen = 1 /\ call[h].reply = 0
           /\ call[g].at = now /\ call[h].at = now
    /\ redisRate["submit:A"].Count = 2
    /\ redisRate["submit:A"].ExpireAt = now + RateWindow

C27_Step ==
    /\ \A g \in ObsReplied("SeenRecently")' :
           pc[g] = "sent" =>
               /\ call'[g].ok <=> call[g].key \notin DOMAIN redisDedupe
               /\ call[g].key \in DOMAIN redisDedupe'
               /\ redisDedupe'[call[g].key] =
                      IF call[g].key \in DOMAIN redisDedupe
                      THEN redisDedupe[call[g].key]
                      ELSE now + call[g].window
    /\ \A g, h \in ObsReplied("SeenRecently")' :
           (g # h /\ call'[g].key = call'[h].key /\ call'[g].at = call'[h].at)
               => ~(call'[g].ok /\ call'[h].ok)
    /\ (dup'.op = "RedisSeenRecently" /\ dup'.remote = "answered") =>
           (dup'.res <=> dup'.held)

\* C27: with Redis answering, SeenRecently is one SET NX with the window as
\* time to live: it returns false exactly when the key was not there, and the
\* key is then there with expiry now + window; it returns true when the key
\* was there, whose expiry stays as it was; of calls made at the same time for
\* a key that is not there, one returns false and the others true.
C27_OneSetIfAbsent == [][C27_Step]_vars

\* two calls for the same text at the same time: the key was absent for one
\* and present, just set, for the other
C27_Witness ==
    /\ ObsReplied("SeenRecently") = Procs
    /\ \E g, h \in Procs :
           /\ call[g].ok /\ ~call[g].held
           /\ ~call[h].ok /\ call[h].held
           /\ call[g].key = call[h].key
           /\ call[g].at = now /\ call[h].at = now
    /\ redisDedupe["h1"] = now + DuplicateWindow

\* the Allow calls that returned true at the clock values from t on, n of them
RECURSIVE ObsGrants(_, _)
ObsGrants(t, n) ==
    IF n <= 0 \/ t > MaxTime THEN 0 ELSE grants[t] + ObsGrants(t + 1, n - 1)

\* C25: on the local limiter, for one key with limit L > 0 and window W, the
\* Allow calls that return true within a time interval shorter than W number
\* at most 2 x L. Allow reads the clock before it takes the mutex, so calls
\* decided at one time are counted against windows of different times, and
\* three windows can be granted within such an interval.
C25_BurstAtMostTwiceLimit ==
    \A t \in 0..MaxTime : ObsGrants(t, RateWindow) <= 2 * QueryLimitPerWindow

\* ---- proof-of-work arguments on a challenge that asks for none

\* what a submission on a live record without difficulty returns, from the
\* address, the timestamp and the signature alone
ObsPlainResult ==
    IF last'.blocked THEN "ErrClientBlocked"
    ELSE IF ~last'.own THEN "ErrChallengeIPMismatch"
    ELSE IF ~last'.fresh THEN "ErrTimestampInvalid"
    ELSE IF ~last'.sg THEN "ErrSignatureInvalid"
    ELSE "nil"

\* the call counts as a failure that brings the record to the threshold
ObsPlainBlocks ==
    ObsPlainResult = "ErrSignatureInvalid" /\ last'.fc + 1 >= failThreshold

C31_Step ==
    (last'.op = "Verify" /\ last'.rec = "live" /\ last'.bits = 0) =>
        /\ last'.res = ObsPlainResult
        /\ DOMAIN records' = IF ObsPlainResult = "nil" \/ ObsPlainBlocks
                              THEN ObsLiveBefore \ {last'.id}
                              ELSE ObsLiveBefore
        /\ \A i \in DOMAIN records' :
               records'[i] = IF i = last'.id /\ ObsPlainResult = "ErrSignatureInvalid"
                             THEN [records[i] EXCEPT !.FailCount = @ + 1]
                             ELSE records[i]
        /\ DOMAIN blockedClientIP' =
               {p \in DOMAIN blockedClientIP : ~(blockedClientIP[p] < now)}
                   \cup (IF ObsPlainBlocks THEN {last'.ip} ELSE {})
        /\ \A p \in DOMAIN blockedClientIP' :
               blockedClientIP'[p] = IF p = last'.ip /\ ObsPlainBlocks
                                     THEN now + blockDuration
                                     ELSE blockedClientIP[p]

\* C31: for a challenge issued with proof-of-work difficulty 0, the result of
\* VerifySubmission and the records and blocks it leaves are fixed by the state
\* it met, the address, the timestamp and the signature: the nonce and the hash
\* supplied as proof of work have no part in them, so two calls that differ in
\* those two arguments alone return the same and reach the same state.
C31_PoWArgumentsIgnored == [][C31_Step]_vars

\* a submission with an oversized nonce, or with a nonce and a hash that is
\* not the hash of its digest, succeeded on a challenge without difficulty
C31_Witness ==
    /\ last.op = "Verify" /\ last.rec = "live" /\ last.bits = 0
    /\ (last.nk = "long" \/ last.hk = "other")
    /\ last.res = "nil" /\ last.id \notin DOMAIN records

\* ---- the stored count of the local limiter

C32_Step ==
    /\ \A k \in DOMAIN limRecords' :
           1 <= limRecords'[k].Count /\ limRecords'[k].Count <= LimitOf(k)
    /\ (lim'.op = "Allow" /\ ~lim'.res) =>
           /\ (lim'.key \in DOMAIN limRecords') = (lim'.key \in DOMAIN limRecords)
           /\ lim'.key \in DOMAIN limRecords =>
                  /\ limRecords'[lim'.key].WindowStart = limRecords[lim'.key].WindowStart
                  /\ limRecords'[lim'.key].Count = limRecords[lim'.key].Count

\* C32: on the local limiter, where the calls for a key that have a positive
\* limit all have the same limit L, the count stored for the key is at least 1
\* and at most L at all times, and an Allow call that returns false leaves the
\* window start and the count of its key as they were: a denied call neither
\* extends the window nor raises the count.
C32_CountWithinLimit == [][C32_Step]_vars

\* a call was denied on a key whose window began earlier and whose count is at
\* its limit, and the record is as that window's calls left it
C32_Witness ==
    /\ lim.op = "Allow" /\ ~lim.res /\ lim.limit = QueryLimitPerWindow
    /\ lim.key \in DOMAIN limRecords
    /\ limRecords[lim.key].Count = lim.limit
    /\ limRecords[lim.key].WindowStart < now
    /\ ~lim.changed

\* ---- keys that share the local limiter with windows of their own

\* C33: on the local limiter the result of Allow for a key follows from the
\* earlier calls for that key alone: while the window that began with the key's
\* first call has not elapsed its record is in the map with that window start,
\* whatever calls were made for other keys and whatever window they gave, and
\* a call is allowed exactly when it is at most the limit-th call of the key
\* in its window. cleanupExpired measures every record against the window of
\* the call that runs it, so a call for another key with a window of at most
\* half the key's own removes the record, and this does not hold of the code.
C33_OtherKeysLeaveWindow ==
    /\ \A k \in DOMAIN calls :
           now - calls[k].Start < WindowOf(k) =>
               k \in DOMAIN limRecords /\ limRecords[k].WindowStart = calls[k].Start
    /\ (lim.op = "Allow" /\ lim.limit > 0) => lim.res = (lim.nth <= lim.limit)

\* ---- the Redis-backed limiter beside a local one

\* C34: with Redis answering every call, the Redis-backed limiter returns for
\* each Allow call what a local FixedWindowLimiter returns that is given the
\* same calls at the same times, for every key with its limit and the
\* configured window; the Redis counter goes on counting the calls that are
\* denied and the local count does not, and the two still agree on every call.
C34_RemoteAgreesWithLocal ==
    lim.op = "AllowBoth" => lim.res = lim.local

\* a call in a later window of the key is denied by both, with the Redis
\* counter ahead of the local count
C34_Witness ==
    /\ lim.op = "AllowBoth" /\ lim.limit > 0 /\ ~lim.res /\ ~lim.local
    /\ limRecords[lim.key].WindowStart >= RateWindow
    /\ redisRate[lim.key].Count > limRecords[lim.key].Count

\* ---- the duplicate detector of one process through Redis outages

\* the calls that returned false for the key at the n clock values from t on
RECURSIVE ObsMisses(_, _, _)
ObsMisses(key, t, n) ==
    IF n = 0 \/ t > MaxTime THEN 0
    ELSE (IF <<key, t>> \in DOMAIN misses THEN misses[<<key, t>>] ELSE 0)
             + ObsMisses(key, t + 1, n - 1)

\* C35: for one process of the Redis-backed duplicate detector, one key and
\* the window W, however outages and recoveries of Redis fall between the
\* calls, at most two SeenRecently calls made within a time interval shorter
\* than W return false: at most one that Redis decided and at most one that
\* the fallback detector of the process decided, which keep their entries
\* apart.
C35_AtMostTwoMisses ==
    \A t \in 0..MaxTime : ObsMisses("h1", t, DuplicateWindow) <= 2

\* Redis holds the key from a call it answered, and a call made during an
\* outage within the window was decided by the fallback and returned false
C35_Witness ==
    /\ dup.op = "RedisSeenRecently" /\ dup.remote = "unreached" /\ ~dup.res
    /\ dup.held /\ dup.key \in DOMAIN redisDedupe
    /\ \E t \in 0..MaxTime : ObsMisses("h1", t, DuplicateWindow) = 2

\* ---- submissions whose issue is not created

C36_Step ==
    req' # NoReq =>
        /\ (dup'.op = "SeenRecently" /\ ~dup'.res) =>
               /\ dup'.key \in DOMAIN dupRecords'
               /\ dupRecords'[dup'.key] = now + DuplicateWindow
        /\ req'.status \in {502, 500} =>
               /\ dup'.op = "SeenRecently" /\ ~dup'.res
               /\ dup'.key \in DOMAIN dupRecords'
        /\ req'.status = 502 => tickets' = tickets
        /\ (/\ dup'.op = "SeenRecently"
            /\ dup'.key \in DOMAIN dupRecords
            /\ now < dupRecords[dup'.key])
               => (req'.status = 409 /\ ~req'.created /\ tickets' = tickets)

\* C36: handleCreateIssue records the duplicate key when SeenRecently returns
\* false, before the issue is created, and keeps it when CreateIssue or the
\* saving of the ticket token then fails (502, 500): the same text sent again
\* from the same address within the duplicate window is answered 409 and no
\* issue is created for it, also when none was created the first time.
C36_KeyKeptWhenCreationFails == [][C36_Step]_vars

\* a text was answered 409 although no token was ever set for it: the entry
\* that stopped it was left by a request whose issue was not created
C36_Witness ==
    /\ req # NoReq /\ req.status = 409 /\ ~req.created
    /\ dup.op = "SeenRecently" /\ dup.res
    /\ dup.key \notin tickets

====
